---- MODULE Spec2Model ----
(***************************************************************************)
(* The tool dispatch and execution engine of the OpenShift MCP server      *)
(* (src/index.js): the tool catalog returned by ListTools, the CallTool    *)
(* request handler (argument validation, routing, the outermost catch),    *)
(* and the domain handlers.  One request is followed from its arrival to   *)
(* the response handed back to the transport; every await of a handler on  *)
(* the cluster API or on a child process is a step whose outcome the       *)
(* environment chooses.                                                    *)
(***************************************************************************)
EXTENDS Integers, Sequences, FiniteSets, TLC

VARIABLES
  pc,          \* position of the request handler: idle / received / running / nodeLoop / burner / responded / escaped
  request,     \* the CallTool request being handled: [name, hasArgs, args]
  response,    \* the object returned to the transport (meaningful when pc = "responded")
  invoked,     \* the handler method the switch called for this request ("" if none)
  params,      \* the parameter values the invoked handler operates on (key -> value)
  effects,     \* the commands run and cluster API calls made for this request, in order
  outcome,     \* how the handling ended: "none", "success", "handlerError", "validationError", "unknownTool"
  rawError,    \* the message of the underlying error, as thrown (before the dispatcher formats it)
  loop         \* the per-node loop of the kubelet / CRI-O diagnostics

vars == <<pc, request, response, invoked, params, effects, outcome, rawError, loop>>

(***************************************************************************)
(* JavaScript values.  A value is a record of a type tag, a string payload *)
(* and a numeric payload, so that values of different JavaScript types can *)
(* sit in one argument object.                                             *)
(***************************************************************************)
Undefined == [t |-> "undefined", s |-> "", n |-> 0]
Num(k)    == [t |-> "number",    s |-> "", n |-> k]
Str(x)    == [t |-> "string",    s |-> x,  n |-> 0]
Bool(b)   == [t |-> "boolean",   s |-> "", n |-> IF b THEN 1 ELSE 0]
Obj(tag)  == [t |-> "object",    s |-> tag, n |-> 0]
Arr(tag)  == [t |-> "array",     s |-> tag, n |-> 0]

\* typeof v
TypeOf(v) == IF v.t = "array" THEN "object" ELSE v.t

\* Array.isArray(v)
IsArray(v) == v.t = "array"

\* the truthiness of v, as in `!v`, `v || d`, `v && ...`
Truthy(v) ==
  CASE v.t = "undefined" -> FALSE
    [] v.t = "number"    -> v.n # 0
    [] v.t = "string"    -> v.s # ""
    [] v.t = "boolean"   -> v.n = 1
    [] OTHER             -> TRUE

\* a || d
OrElse(a, d) == IF Truthy(a) THEN a ELSE d

\* a ?? d, and a destructuring or parameter default `k = d`
Coalesce(a, d) == IF a.t = "undefined" THEN d ELSE a

\* args?.key and args.key of an argument object; an absent key reads undefined
Get(args, k) == IF k \in DOMAIN args THEN args[k] ELSE Undefined

\* obj.key of a nested object argument; the payload tag of the object value
\* names its members
Member(v, k) ==
  CASE v.t = "object" /\ v.s = "{cpu:50}"           /\ k = "cpu"        -> Num(50)
    [] v.t = "object" /\ v.s = "{cpu:'high'}"       /\ k = "cpu"        -> Str("high")
    [] v.t = "object" /\ v.s = "{cpuRequest:'250m'}" /\ k = "cpuRequest" -> Str("250m")
    [] v.t = "object" /\ v.s = "{cpuLimit:'2'}"     /\ k = "cpuLimit"   -> Str("2")
    [] OTHER -> Undefined

(***************************************************************************)
(* Text.  A message is a sequence of literal pieces followed by the text   *)
(* that an underlying error (a failed command, a rejected API call)        *)
(* brought with it; that text is a sequence of characters, because         *)
(* sanitizeErrorMessage works on characters.                               *)
(***************************************************************************)
Message(pieces, raw) == [pre |-> pieces, raw |-> raw, post |-> <<>>]

\* `${prefix}${error.message}`
Wrap(prefix, m) == [m EXCEPT !.pre = <<prefix>> \o m.pre]

Lower(c) ==
  CASE c = "A" -> "a" [] c = "B" -> "b" [] c = "C" -> "c" [] c = "D" -> "d"
    [] c = "E" -> "e" [] c = "F" -> "f" [] c = "G" -> "g" [] c = "H" -> "h"
    [] c = "I" -> "i" [] c = "J" -> "j" [] c = "K" -> "k" [] c = "L" -> "l"
    [] c = "M" -> "m" [] c = "N" -> "n" [] c = "O" -> "o" [] c = "P" -> "p"
    [] c = "Q" -> "q" [] c = "R" -> "r" [] c = "S" -> "s" [] c = "T" -> "t"
    [] c = "U" -> "u" [] c = "V" -> "v" [] c = "W" -> "w" [] c = "X" -> "x"
    [] c = "Y" -> "y" [] c = "Z" -> "z"
    [] OTHER -> c

\* \s and the comma: the characters [^,\s] excludes
IsStop(c) == c \in {",", " ", "\t", "\n"}

\* the keyword matches at the head of s in lower case only: the pattern
\* without its i flag
MatchesAtInLowerCase(s, kw) ==
  /\ Len(s) >= Len(kw)
  /\ \A i \in 1..Len(kw) : s[i] = kw[i]

\* the keyword matches (case-insensitively) at the head of s
MatchesAt(s, kw) ==
  /\ Len(s) >= Len(kw)
  /\ \A i \in 1..Len(kw) : Lower(s[i]) = kw[i]

RECURSIVE SkipRun(_)
\* s without its longest prefix of [^,\s] characters
SkipRun(s) == IF s = <<>> \/ IsStop(Head(s)) THEN s ELSE SkipRun(Tail(s))

Redacted == <<"[", "R", "E", "D", "A", "C", "T", "E", "D", "]">>

RECURSIVE ReplaceKeyword(_, _)
\* s.replace(/kw[^,\s]*/gi, 'kw[REDACTED]')
ReplaceKeyword(s, kw) ==
  IF s = <<>> THEN <<>>
  ELSE IF MatchesAt(s, kw)
       THEN kw \o Redacted \o ReplaceKeyword(SkipRun(SubSeq(s, Len(kw) + 1, Len(s))), kw)
       ELSE <<Head(s)>> \o ReplaceKeyword(Tail(s), kw)

KwToken    == <<"t", "o", "k", "e", "n">>
KwPassword == <<"p", "a", "s", "s", "w", "o", "r", "d">>
KwSecret   == <<"s", "e", "c", "r", "e", "t">>

\* sanitizeErrorMessage on the characters of a message
SanitizeChars(s) ==
  ReplaceKeyword(ReplaceKeyword(ReplaceKeyword(s, KwToken), KwPassword), KwSecret)

\* sanitizeErrorMessage(message).  The literal pieces of the messages of this
\* model hold none of the three keywords and end in a stop character, so the
\* replacement acts on the underlying error's text only.
sanitizeErrorMessage(m) == [m EXCEPT !.raw = SanitizeChars(m.raw)]

(***************************************************************************)
(* The tool catalog: what the ListTools handler returns.                   *)
(***************************************************************************)
\* the catalog with one more tool, which the switch has no case for
ListedToolsWithUnroutedTool ==
  << "check_cluster_health", "get_performance_metrics", "detect_resource_issues",
     "analyze_pod_disruptions", "check_node_conditions", "monitor_deployments",
     "check_kubelet_status", "check_crio_status", "analyze_journalctl_pod_errors",
     "create_deployment", "deploy_database", "create_hpa", "create_service",
     "create_network_policy", "run_kube_burner", "run_storage_benchmark",
     "run_network_test", "run_cpu_stress_test", "run_database_benchmark",
     "get_cluster_events" >>

ListedTools ==
  << "check_cluster_health", "get_performance_metrics", "detect_resource_issues",
     "analyze_pod_disruptions", "check_node_conditions", "monitor_deployments",
     "check_kubelet_status", "check_crio_status", "analyze_journalctl_pod_errors",
     "create_deployment", "deploy_database", "create_hpa", "create_service",
     "create_network_policy", "run_kube_burner", "run_storage_benchmark",
     "run_network_test", "run_cpu_stress_test", "run_database_benchmark" >>

ListedNames == {ListedTools[i] : i \in 1..Len(ListedTools)}

\* one property of an inputSchema: its declared type, its default (Undefined
\* when the schema declares none) and its enum (empty when it declares none)
Prop(type, default, enum) == [type |-> type, default |-> default, enum |-> enum]

\* inputSchema.properties of each listed tool
Properties(tool) ==
  CASE tool = "check_cluster_health" ->
         [k \in {"detailed"} |-> Prop("boolean", Bool(FALSE), {})]
    [] tool = "get_performance_metrics" ->
         [k \in {"namespace", "timeRange"} |->
            IF k = "namespace" THEN Prop("string", Undefined, {})
            ELSE Prop("string", Str("1h"), {})]
    [] tool = "detect_resource_issues" ->
         [k \in {"thresholds"} |-> Prop("object", Undefined, {})]
    [] tool = "analyze_pod_disruptions" ->
         [k \in {"namespace", "hours"} |->
            IF k = "namespace" THEN Prop("string", Undefined, {})
            ELSE Prop("number", Num(24), {})]
    [] tool = "check_node_conditions" ->
         [k \in {} |-> Prop("string", Undefined, {})]
    [] tool = "monitor_deployments" ->
         [k \in {"namespace"} |-> Prop("string", Undefined, {})]
    [] tool = "check_kubelet_status" ->
         [k \in {"hoursBack", "includeSystemErrors"} |->
            IF k = "hoursBack" THEN Prop("number", Num(24), {})
            ELSE Prop("boolean", Bool(FALSE), {})]
    [] tool = "check_crio_status" ->
         [k \in {"hoursBack", "includeContainerErrors"} |->
            IF k = "hoursBack" THEN Prop("number", Num(24), {})
            ELSE Prop("boolean", Bool(TRUE), {})]
    [] tool = "analyze_journalctl_pod_errors" ->
         [k \in {"pod", "hoursBack", "service", "errorTypes"} |->
            CASE k = "hoursBack"  -> Prop("number", Num(24), {})
              [] k = "errorTypes" -> Prop("array", Arr("error,fail,warn"), {})
              [] OTHER            -> Prop("string", Undefined, {})]
    [] tool = "create_deployment" ->
         [k \in {"name", "namespace", "image", "replicas", "resources", "ports"} |->
            CASE k = "namespace" -> Prop("string", Str("default"), {})
              [] k = "replicas"  -> Prop("number", Num(1), {})
              [] k = "resources" -> Prop("object", Undefined, {})
              [] k = "ports"     -> Prop("array", Undefined, {})
              [] OTHER           -> Prop("string", Undefined, {})]
    [] tool = "deploy_database" ->
         [k \in {"type", "name", "namespace", "storageSize", "resources"} |->
            CASE k = "type"        -> Prop("string", Undefined,
                                           {"postgresql", "mysql", "mongodb", "redis"})
              [] k = "namespace"   -> Prop("string", Str("default"), {})
              [] k = "storageSize" -> Prop("string", Str("10Gi"), {})
              [] k = "resources"   -> Prop("object", Undefined, {})
              [] OTHER             -> Prop("string", Undefined, {})]
    [] tool = "create_hpa" ->
         [k \in {"targetDeployment", "namespace", "minReplicas", "maxReplicas",
                 "cpuTarget", "memoryTarget"} |->
            CASE k = "targetDeployment" -> Prop("string", Undefined, {})
              [] k = "namespace"        -> Prop("string", Str("default"), {})
              [] k = "minReplicas"      -> Prop("number", Num(1), {})
              [] k = "maxReplicas"      -> Prop("number", Num(10), {})
              [] k = "cpuTarget"        -> Prop("number", Num(70), {})
              [] OTHER                  -> Prop("number", Num(80), {})]
    [] tool = "create_service" ->
         [k \in {"name", "namespace", "selector", "ports", "type"} |->
            CASE k = "namespace" -> Prop("string", Str("default"), {})
              [] k = "selector"  -> Prop("object", Undefined, {})
              [] k = "ports"     -> Prop("array", Undefined, {})
              [] k = "type"      -> Prop("string", Str("ClusterIP"),
                                         {"ClusterIP", "NodePort", "LoadBalancer"})
              [] OTHER           -> Prop("string", Undefined, {})]
    [] tool = "create_network_policy" ->
         [k \in {"name", "namespace", "podSelector", "ingress", "egress"} |->
            CASE k = "namespace"   -> Prop("string", Str("default"), {})
              [] k = "podSelector" -> Prop("object", Undefined, {})
              [] k = "name"        -> Prop("string", Undefined, {})
              [] OTHER             -> Prop("array", Undefined, {})]
    [] tool = "run_kube_burner" ->
         [k \in {"testType", "iterations", "namespace", "timeout"} |->
            CASE k = "testType"   -> Prop("string", Str("cluster-density-v2"),
                                          {"cluster-density-v2", "node-density",
                                           "pvc-density", "crd-scale"})
              [] k = "iterations" -> Prop("number", Num(5), {})
              [] k = "namespace"  -> Prop("string", Str("kube-burner-test"), {})
              [] OTHER            -> Prop("string", Str("10m"), {})]
    [] tool = "run_storage_benchmark" ->
         [k \in {"testType", "blockSize", "duration", "storageClass", "volumeSize"} |->
            CASE k = "testType"     -> Prop("string", Str("mixed"),
                                            {"sequential-read", "sequential-write",
                                             "random-read", "random-write", "mixed"})
              [] k = "blockSize"    -> Prop("string", Str("4k"), {})
              [] k = "duration"     -> Prop("string", Str("60s"), {})
              [] k = "storageClass" -> Prop("string", Undefined, {})
              [] OTHER              -> Prop("string", Str("10Gi"), {})]
    [] tool = "run_network_test" ->
         [k \in {"testType", "duration", "parallel", "protocol", "bandwidth"} |->
            CASE k = "testType"  -> Prop("string", Str("throughput"),
                                         {"throughput", "latency", "packet-loss"})
              [] k = "duration"  -> Prop("string", Str("30s"), {})
              [] k = "parallel"  -> Prop("number", Num(1), {})
              [] k = "protocol"  -> Prop("string", Str("tcp"), {"tcp", "udp"})
              [] OTHER           -> Prop("string", Str("1G"), {})]
    [] tool = "run_cpu_stress_test" ->
         [k \in {"testType", "duration", "cpuCores", "memorySize", "nodeSelector"} |->
            CASE k = "testType"     -> Prop("string", Str("combined"),
                                            {"cpu", "memory", "combined"})
              [] k = "duration"     -> Prop("string", Str("2m"), {})
              [] k = "cpuCores"     -> Prop("number", Num(2), {})
              [] k = "memorySize"   -> Prop("string", Str("1G"), {})
              [] OTHER              -> Prop("object", Undefined, {})]
    [] tool = "run_database_benchmark" ->
         [k \in {"dbType", "testType", "threads", "duration", "tableSize"} |->
            CASE k = "dbType"    -> Prop("string", Undefined, {"postgresql", "mysql"})
              [] k = "testType"  -> Prop("string", Str("oltp_read_write"),
                                         {"oltp_read_write", "oltp_read_only",
                                          "oltp_write_only"})
              [] k = "threads"   -> Prop("number", Num(10), {})
              [] k = "duration"  -> Prop("string", Str("60s"), {})
              [] OTHER           -> Prop("number", Num(100000), {})]
    [] OTHER -> [k \in {} |-> Prop("string", Undefined, {})]

\* inputSchema.required of each listed tool
Required(tool) ==
  CASE tool = "create_deployment"      -> {"name", "image"}
    [] tool = "deploy_database"        -> {"type", "name"}
    [] tool = "create_hpa"             -> {"targetDeployment"}
    [] tool = "create_service"         -> {"name", "selector", "ports"}
    [] tool = "create_network_policy"  -> {"name", "podSelector"}
    [] tool = "run_database_benchmark" -> {"dbType"}
    [] OTHER                           -> {}

(***************************************************************************)
(* validateToolArguments.  The result is the message of the Error it       *)
(* throws, or "" when it returns normally.                                 *)
(***************************************************************************)
Def(v) == v.t # "undefined"

\* list.includes(v): strict equality with one of the strings
Includes(list, v) == v.t = "string" /\ v.s \in list

\* the first failing check of a case, or ""
FirstError(checks) ==
  IF \E i \in 1..Len(checks) : checks[i][1]
  THEN checks[CHOOSE i \in 1..Len(checks) :
                /\ checks[i][1]
                /\ \A j \in 1..(i - 1) : ~checks[j][1]][2]
  ELSE ""

\* `args.k && typeof args.k !== type`
TruthyNot(args, k, type) == Truthy(Get(args, k)) /\ TypeOf(Get(args, k)) # type

\* `args.k !== undefined && typeof args.k !== type`
DefinedNot(args, k, type) == Def(Get(args, k)) /\ TypeOf(Get(args, k)) # type

\* `v !== undefined && typeof v !== 'number'`
NotNumber(v) == Def(v) /\ TypeOf(v) # "number"

\* `!args.k || typeof args.k !== type`
MissingOrNot(args, k, type) == ~Truthy(Get(args, k)) \/ TypeOf(Get(args, k)) # type

validateToolArguments(toolName, hasArgs, args) ==
  IF ~hasArgs THEN ""
  ELSE CASE toolName = "check_cluster_health" -> FirstError(<<
         <<DefinedNot(args, "detailed", "boolean"), "detailed parameter must be boolean">> >>)
    [] toolName = "get_performance_metrics" -> FirstError(<<
         <<TruthyNot(args, "namespace", "string"), "namespace parameter must be string">>,
         <<TruthyNot(args, "timeRange", "string"), "timeRange parameter must be string">> >>)
    [] toolName = "detect_resource_issues" ->
         IF ~Truthy(Get(args, "thresholds")) THEN ""
         ELSE FirstError(<<
           <<TypeOf(Get(args, "thresholds")) # "object", "thresholds parameter must be object">>,
           <<NotNumber(Member(Get(args, "thresholds"), "cpu")), "cpu threshold must be number">>,
           <<NotNumber(Member(Get(args, "thresholds"), "memory")),
             "memory threshold must be number">>,
           <<NotNumber(Member(Get(args, "thresholds"), "restarts")),
             "restarts threshold must be number">> >>)
    [] toolName = "analyze_pod_disruptions" -> FirstError(<<
         <<TruthyNot(args, "namespace", "string"), "namespace parameter must be string">>,
         <<DefinedNot(args, "hours", "number"), "hours parameter must be number">> >>)
    [] toolName = "monitor_deployments" -> FirstError(<<
         <<TruthyNot(args, "namespace", "string"), "namespace parameter must be string">> >>)
    [] toolName = "check_kubelet_status" -> FirstError(<<
         <<DefinedNot(args, "hoursBack", "number"), "hoursBack parameter must be number">>,
         <<DefinedNot(args, "includeSystemErrors", "boolean"),
           "includeSystemErrors parameter must be boolean">> >>)
    [] toolName = "check_crio_status" -> FirstError(<<
         <<DefinedNot(args, "hoursBack", "number"), "hoursBack parameter must be number">>,
         <<DefinedNot(args, "includeContainerErrors", "boolean"),
           "includeContainerErrors parameter must be boolean">> >>)
    [] toolName = "analyze_journalctl_pod_errors" -> FirstError(<<
         <<DefinedNot(args, "pod", "string"), "pod parameter must be string">>,
         <<DefinedNot(args, "hoursBack", "number"), "hoursBack parameter must be number">>,
         <<DefinedNot(args, "service", "string"), "service parameter must be string">>,
         <<Def(Get(args, "errorTypes")) /\ ~IsArray(Get(args, "errorTypes")),
           "errorTypes parameter must be array">> >>)
    [] toolName = "create_deployment" -> FirstError(<<
         <<MissingOrNot(args, "name", "string"), "name parameter is required and must be string">>,
         <<MissingOrNot(args, "image", "string"), "image parameter is required and must be string">>,
         <<TruthyNot(args, "namespace", "string"), "namespace parameter must be string">>,
         <<DefinedNot(args, "replicas", "number"), "replicas parameter must be number">> >>)
    [] toolName = "deploy_database" -> FirstError(<<
         <<MissingOrNot(args, "type", "string"), "type parameter is required and must be string">>,
         <<MissingOrNot(args, "name", "string"), "name parameter is required and must be string">> >>)
    [] toolName = "create_hpa" -> FirstError(<<
         <<MissingOrNot(args, "targetDeployment", "string"),
           "targetDeployment parameter is required and must be string">> >>)
    [] toolName = "create_service" -> FirstError(<<
         <<MissingOrNot(args, "name", "string"), "name parameter is required and must be string">>,
         <<MissingOrNot(args, "selector", "object"),
           "selector parameter is required and must be object">>,
         <<~Truthy(Get(args, "ports")) \/ ~IsArray(Get(args, "ports")),
           "ports parameter is required and must be array">> >>)
    [] toolName = "create_network_policy" -> FirstError(<<
         <<MissingOrNot(args, "name", "string"), "name parameter is required and must be string">>,
         <<MissingOrNot(args, "podSelector", "object"),
           "podSelector parameter is required and must be object">> >>)
    [] toolName = "run_kube_burner" -> FirstError(<<
         <<Truthy(Get(args, "testType")) /\
             ~Includes({"cluster-density-v2", "node-density", "pvc-density", "crd-scale"},
                       Get(args, "testType")),
           "testType must be one of: cluster-density-v2, node-density, pvc-density, crd-scale">>,
         <<Def(Get(args, "iterations")) /\
             (TypeOf(Get(args, "iterations")) # "number" \/ Get(args, "iterations").n < 1
                \/ Get(args, "iterations").n > 100),
           "iterations must be number between 1 and 100">> >>)
    [] toolName = "run_storage_benchmark" -> FirstError(<<
         <<Truthy(Get(args, "testType")) /\
             ~Includes({"sequential-read", "sequential-write", "random-read", "random-write",
                        "mixed"}, Get(args, "testType")),
           "testType must be one of: sequential-read, sequential-write, random-read, random-write, mixed">> >>)
    [] toolName = "run_network_test" -> FirstError(<<
         <<Truthy(Get(args, "testType")) /\
             ~Includes({"throughput", "latency", "packet-loss"}, Get(args, "testType")),
           "testType must be one of: throughput, latency, packet-loss">>,
         <<Truthy(Get(args, "protocol")) /\ ~Includes({"tcp", "udp"}, Get(args, "protocol")),
           "protocol must be tcp or udp">> >>)
    [] toolName = "run_cpu_stress_test" -> FirstError(<<
         <<Truthy(Get(args, "testType")) /\
             ~Includes({"cpu", "memory", "combined"}, Get(args, "testType")),
           "testType must be one of: cpu, memory, combined">> >>)
    [] toolName = "run_database_benchmark" -> FirstError(<<
         <<~Truthy(Get(args, "dbType")) \/ ~Includes({"postgresql", "mysql"}, Get(args, "dbType")),
           "dbType is required and must be postgresql or mysql">> >>)
    [] OTHER -> ""

(***************************************************************************)
(* Requests.  A request names a listed tool or another name; its arguments *)
(* are absent, or an object holding at most MaxArgs keys, each with a      *)
(* value of the declared type (among them the falsy value of the type) or  *)
(* of another type.                                                        *)
(***************************************************************************)
MaxArgs == 3

UnknownNames == {"delete_cluster", "Check_Cluster_Health"}

\* keys a handler reads that its schema does not declare
UndeclaredKeys(tool) == IF tool = "run_kube_burner" THEN {"operation", "cleanup"} ELSE {}

ArgKeys(tool) == DOMAIN Properties(tool) \cup UndeclaredKeys(tool)

IdentifierKeys == {"name", "namespace", "pod", "service", "targetDeployment"}

ArgValues(tool, k) ==
  CASE k = "operation" -> {Str("cleanup"), Str("both"), Str("restart")}
    [] k = "cleanup"   -> {Bool(FALSE), Bool(TRUE)}
    [] k = "testType" /\ tool = "run_kube_burner" ->
         {Str("node-density"), Str("pvc-density"), Str("crd-scale"), Str("unlisted")}
    [] k = "iterations" -> {Num(0), Num(2), Str("2")}
    [] k = "thresholds" -> {Obj("{cpu:50}"), Obj("{cpu:'high'}"), Str("high")}
    [] k = "resources"  -> {Obj("{cpuRequest:'250m'}"), Obj("{cpuLimit:'2'}")}
    [] k \in IdentifierKeys -> {Str(""), Str("web"), Str("x;reboot"), Num(7)}
    [] Properties(tool)[k].enum # {} ->
         {Str(CHOOSE m \in Properties(tool)[k].enum : TRUE), Str("unlisted")}
    [] Properties(tool)[k].type = "boolean" -> {Bool(TRUE), Bool(FALSE), Str("yes")}
    [] Properties(tool)[k].type = "number"  -> {Num(0), Num(3), Str("3")}
    [] Properties(tool)[k].type = "string"  -> {Str("5m"), Num(5)}
    [] Properties(tool)[k].type = "object"  -> {Obj("{app:web}"), Str("app")}
    [] OTHER                                -> {Arr("[]"), Str("list")}

NoArgs == [k \in {} |-> Undefined]

RECURSIVE ArgObjects(_, _)
\* the argument objects with exactly the keys `keys`
ArgObjects(tool, keys) ==
  IF keys = {} THEN {NoArgs}
  ELSE LET k == CHOOSE x \in keys : TRUE
       IN  {(k :> v) @@ f : v \in ArgValues(tool, k), f \in ArgObjects(tool, keys \ {k})}

RequestsFor(name) ==
  {[name |-> name, hasArgs |-> FALSE, args |-> NoArgs]}
    \cup {[name |-> name, hasArgs |-> TRUE, args |-> a] :
            a \in UNION {ArgObjects(name, keys) :
                           keys \in {ks \in SUBSET ArgKeys(name) : Cardinality(ks) <= MaxArgs}}}

Requests == UNION {RequestsFor(name) : name \in ListedNames \cup UnknownNames}

NoRequest == [name |-> "", hasArgs |-> FALSE, args |-> NoArgs]

(***************************************************************************)
(* Errors and results.                                                     *)
(***************************************************************************)
\* A thrown or rejected value is an Error (a TypeError is one too) and is
\* modelled by its message: child_process.exec and the Kubernetes client
\* reject with Error objects, and the handlers throw nothing else.

\* texts that a failed command or a rejected cluster API call brings along
MsgTimedOut   == <<"t", "i", "m", "e", "d", " ", "o", "u", "t">>
MsgWithSecret == <<"b", "a", "d", " ", "T", "o", "k", "e", "n", "=", "a", "b", "1", ",", " ", "4", "0", "1">>
RawMessages   == {MsgTimedOut, MsgWithSecret}

\* what an awaited call can reject with
Rejections == {Message(<<>>, raw) : raw \in RawMessages}

NoMessage  == Message(<<>>, <<>>)
NoResponse == [content |-> <<>>, isError |-> Undefined]

\* a success result that splits the report into two content items
TextResultInTwoItems(head, payload) ==
  [content |-> <<[type |-> "text",
                  text |-> [pre |-> <<head>>, raw |-> <<>>, post |-> <<>>, payload |-> <<>>]],
                 [type |-> "text",
                  text |-> [pre |-> <<>>, raw |-> <<>>, post |-> <<>>, payload |-> payload]]>>,
   isError |-> Undefined]

\* the object a handler returns on success: one text item, no isError key
TextResult(head, payload) ==
  [content |-> <<[type |-> "text",
                  text |-> [pre |-> <<head>>, raw |-> <<>>, post |-> <<>>, payload |-> payload]]>>,
   isError |-> Undefined]

\* the object the catch of the CallTool handler returns
ErrorResult(name, m) ==
  [content |-> <<[type |-> "text",
                  text |-> [pre |-> <<"Error executing ", name, ": ">> \o m.pre,
                            raw |-> m.raw,
                            post |-> <<" [DEBUG: Raw error]">>,
                            payload |-> <<>>]]>>,
   isError |-> Bool(TRUE)]

\* `catch (error) { throw new Error(`${prefix}${error.message}`) }` of a handler
HandlerCatch(prefix, m) == Wrap(prefix, m)

(***************************************************************************)
(* The switch of the CallTool handler and the handlers' entry.             *)
(***************************************************************************)
\* the method each case of the switch calls; "" for the default case
HandlerOf(name) ==
  CASE name = "check_cluster_health"          -> "checkClusterHealth"
    [] name = "get_performance_metrics"       -> "getPerformanceMetrics"
    [] name = "detect_resource_issues"        -> "detectResourceIssues"
    [] name = "analyze_pod_disruptions"       -> "analyzePodDisruptions"
    [] name = "check_node_conditions"         -> "checkNodeConditions"
    [] name = "monitor_deployments"           -> "monitorDeployments"
    [] name = "check_kubelet_status"          -> "checkKubeletStatus"
    [] name = "check_crio_status"             -> "checkCrioStatus"
    [] name = "analyze_journalctl_pod_errors" -> "analyzeJournalctlPodErrors"
    [] name = "create_deployment"             -> "createDeployment"
    [] name = "deploy_database"               -> "deployDatabase"
    [] name = "create_hpa"                    -> "createHPA"
    [] name = "create_service"                -> "createService"
    [] name = "create_network_policy"         -> "createNetworkPolicy"
    [] name = "run_kube_burner"               -> "runKubeBurner"
    [] name = "run_storage_benchmark"         -> "runStorageBenchmark"
    [] name = "run_network_test"              -> "runNetworkTest"
    [] name = "run_cpu_stress_test"           -> "runCpuStressTest"
    [] name = "run_database_benchmark"        -> "runDatabaseBenchmark"
    [] OTHER                                  -> ""

\* the cases whose handler receives the argument object itself and
\* destructures it
TakesArgsObject(name) ==
  name \in {"create_deployment", "deploy_database", "create_hpa", "create_service",
            "create_network_policy", "run_kube_burner", "run_storage_benchmark",
            "run_network_test", "run_cpu_stress_test", "run_database_benchmark"}

\* The values a handler works with, key by key: what the switch passes
\* (args?.k, with its || or ?? fallback), then the parameter or destructuring
\* default, then the handler's own fallbacks.
HandlerParams(name, args) ==
  LET a(k) == Get(args, k)
      withDefaults(defaults) ==
        [k \in ArgKeys(name) |->
           IF k \in DOMAIN defaults THEN Coalesce(a(k), defaults[k])
           ELSE IF k = "namespace" /\ name # "run_kube_burner" THEN OrElse(a(k), Str("default"))
           ELSE a(k)]
  IN
  CASE name = "check_cluster_health" ->
         [k \in {"detailed"} |-> Coalesce(OrElse(a(k), Bool(FALSE)), Bool(FALSE))]
    [] name = "get_performance_metrics" ->
         [k \in {"namespace", "timeRange"} |->
            IF k = "timeRange" THEN Coalesce(a(k), Str("1h")) ELSE a(k)]
    [] name = "detect_resource_issues" ->
         [k \in {"thresholds"} |-> Coalesce(a(k), Obj("{}"))]
    [] name = "analyze_pod_disruptions" ->
         [k \in {"namespace", "hours"} |->
            IF k = "hours" THEN Coalesce(a(k), Num(24)) ELSE a(k)]
    [] name = "monitor_deployments" ->
         [k \in {"namespace"} |-> a(k)]
    [] name = "check_kubelet_status" ->
         [k \in {"hoursBack", "includeSystemErrors"} |->
            IF k = "hoursBack" THEN Coalesce(Coalesce(a(k), Num(24)), Num(24))
            ELSE Coalesce(OrElse(a(k), Bool(FALSE)), Bool(FALSE))]
    [] name = "check_crio_status" ->
         [k \in {"hoursBack", "includeContainerErrors"} |->
            IF k = "hoursBack" THEN Coalesce(Coalesce(a(k), Num(24)), Num(24))
            ELSE Bool(a(k) # Bool(FALSE))]
    [] name = "analyze_journalctl_pod_errors" ->
         [k \in {"pod", "hoursBack", "service", "errorTypes"} |->
            CASE k = "hoursBack"  -> OrElse(Coalesce(OrElse(a(k), Num(24)), Num(24)), Num(24))
              [] k = "errorTypes" ->
                   OrElse(Coalesce(OrElse(a(k), Arr("error,fail,warn")), Arr("error,fail,warn")),
                          Arr("error,fail,warn"))
              [] OTHER -> a(k)]
    [] name = "create_deployment" ->
         withDefaults([k \in {"replicas", "resources", "ports"} |->
                         CASE k = "replicas" -> Num(1)
                           [] k = "resources" -> Obj("{}")
                           [] OTHER -> Arr("[]")])
    [] name = "deploy_database" ->
         withDefaults([k \in {"storageSize", "resources"} |->
                         IF k = "storageSize" THEN Str("10Gi") ELSE Obj("{}")])
    [] name = "create_hpa" ->
         withDefaults([k \in {"minReplicas", "maxReplicas", "cpuTarget", "memoryTarget"} |->
                         CASE k = "minReplicas" -> Num(1)
                           [] k = "maxReplicas" -> Num(10)
                           [] k = "cpuTarget" -> Num(70)
                           [] OTHER -> Num(80)])
    [] name = "create_service" ->
         withDefaults([k \in {"type"} |-> Str("ClusterIP")])
    [] name = "create_network_policy" ->
         withDefaults([k \in {"ingress", "egress"} |-> Arr("[]")])
    [] name = "run_kube_burner" ->
         withDefaults([k \in {"testType", "iterations", "namespace", "timeout", "cleanup",
                              "operation"} |->
                         CASE k = "testType" -> Str("cluster-density-v2")
                           [] k = "iterations" -> Num(5)
                           [] k = "namespace" -> Str("kube-burner-test")
                           [] k = "timeout" -> Str("10m")
                           [] k = "cleanup" -> Bool(TRUE)
                           [] OTHER -> Str("create")])
    [] name = "run_storage_benchmark" ->
         withDefaults([k \in {"testType", "blockSize", "duration", "volumeSize"} |->
                         CASE k = "testType" -> Str("mixed")
                           [] k = "blockSize" -> Str("4k")
                           [] k = "duration" -> Str("60s")
                           [] OTHER -> Str("10Gi")])
    [] name = "run_network_test" ->
         withDefaults([k \in {"testType", "duration", "parallel", "protocol", "bandwidth"} |->
                         CASE k = "testType" -> Str("throughput")
                           [] k = "duration" -> Str("30s")
                           [] k = "parallel" -> Num(1)
                           [] k = "protocol" -> Str("tcp")
                           [] OTHER -> Str("1G")])
    [] name = "run_cpu_stress_test" ->
         withDefaults([k \in {"testType", "duration", "cpuCores", "memorySize", "nodeSelector"} |->
                         CASE k = "testType" -> Str("combined")
                           [] k = "duration" -> Str("2m")
                           [] k = "cpuCores" -> Num(2)
                           [] k = "memorySize" -> Str("1G")
                           [] OTHER -> Obj("{}")])
    [] name = "run_database_benchmark" ->
         withDefaults([k \in {"testType", "threads", "duration", "tableSize"} |->
                         CASE k = "testType" -> Str("oltp_read_write")
                           [] k = "threads" -> Num(10)
                           [] k = "duration" -> Str("60s")
                           [] OTHER -> Num(100000)])
    [] OTHER -> NoArgs

\* `Failed to ...: ` of each handler's catch
FailurePrefix(name) ==
  CASE name = "check_cluster_health"    -> "Failed to check cluster health: "
    [] name = "get_performance_metrics" -> "Failed to get performance metrics: "
    [] name = "detect_resource_issues"  -> "Failed to detect resource issues: "
    [] name = "analyze_pod_disruptions" -> "Failed to analyze pod disruptions: "
    [] name = "check_node_conditions"   -> "Failed to check node conditions: "
    [] name = "monitor_deployments"     -> "Failed to monitor deployments: "
    [] name = "check_kubelet_status"    -> "Failed to check kubelet status: "
    [] name = "check_crio_status"       -> "Failed to check CRI-O status: "
    [] name = "create_deployment"       -> "Failed to create deployment: "
    [] name = "deploy_database"         -> "Failed to deploy database: "
    [] name = "create_hpa"              -> "Failed to create HPA: "
    [] name = "create_service"          -> "Failed to create service: "
    [] name = "create_network_policy"   -> "Failed to create network policy: "
    [] name = "run_kube_burner"         -> "Failed to run kube-burner operation: "
    [] name = "run_storage_benchmark"   -> "Failed to run storage benchmark: "
    [] name = "run_network_test"        -> "Failed to run network test: "
    [] name = "run_cpu_stress_test"     -> "Failed to run stress test: "
    [] name = "run_database_benchmark"  -> "Failed to run database benchmark: "
    [] OTHER                            -> "Error analyzing journalctl logs: "

\* the first line of each handler's report
SuccessHead(name) ==
  CASE name = "check_cluster_health"          -> "Cluster Health Report:"
    [] name = "get_performance_metrics"       -> "Performance Metrics Report:"
    [] name = "detect_resource_issues"        -> "Resource Issues Report:"
    [] name = "analyze_pod_disruptions"       -> "Pod Disruption Analysis:"
    [] name = "check_node_conditions"         -> "Node Conditions Report:"
    [] name = "monitor_deployments"           -> "Deployment Monitor Report:"
    [] name = "check_kubelet_status"          -> "Kubelet Status Report:"
    [] name = "check_crio_status"             -> "CRI-O Status Report:"
    [] name = "analyze_journalctl_pod_errors" -> "Journalctl Pod Error Analysis:"
    [] name = "create_deployment"             -> "Deployment created successfully:"
    [] name = "deploy_database"               -> "Database deployed successfully:"
    [] name = "create_hpa"                    -> "HPA created successfully:"
    [] name = "create_service"                -> "Service created successfully:"
    [] name = "create_network_policy"         -> "Network Policy created successfully:"
    [] name = "run_kube_burner"               -> "Kube-burner operation completed:"
    [] name = "run_storage_benchmark"         -> "Storage benchmark completed:"
    [] name = "run_network_test"              -> "Network test completed:"
    [] name = "run_cpu_stress_test"           -> "CPU/Memory stress test completed:"
    [] OTHER                                  -> "Database benchmark completed:"

\* one command run (op "exec": a shell command line, with the manifest it pipes
\* in) or cluster API call (op "api"), with the values of the request that
\* were spliced into its command line, manifest or parameters
Effect(op, what, idents) == [op |-> op, what |-> what, idents |-> idents]

\* the value a handler holds for a key of the request, as it is spliced in
Arg(p, k) == <<[key |-> k, value |-> p[k]]>>

\* a value that is spliced in only when it is truthy: `namespace ? ... : ...`
IfTruthy(p, k) == IF Truthy(p[k]) THEN Arg(p, k) ELSE <<>>

\* the first command or API call of the handlers whose later steps are not
\* followed one by one
FirstIO(name, p) ==
  CASE name = "detect_resource_issues"  -> Effect("api", "listPodForAllNamespaces", <<>>)
    [] name = "analyze_pod_disruptions" ->
         IF Truthy(p["namespace"]) THEN Effect("api", "listNamespacedEvent", Arg(p, "namespace"))
         ELSE Effect("api", "listEventForAllNamespaces", <<>>)
    [] name = "check_node_conditions"   -> Effect("api", "listNode", <<>>)
    [] name = "monitor_deployments"     ->
         Effect("exec", "kubectl get deployments", IfTruthy(p, "namespace"))
    [] name = "deploy_database"         -> Effect("api", "readNamespace", Arg(p, "namespace"))
    [] name = "create_hpa"              ->
         Effect("exec", "kubectl get deployment", Arg(p, "targetDeployment") \o Arg(p, "namespace"))
    [] name = "create_service"          -> Effect("api", "readNamespace", Arg(p, "namespace"))
    [] name = "create_network_policy"   -> Effect("api", "readNamespace", Arg(p, "namespace"))
    [] name = "run_kube_burner"         ->
         IF p["operation"] = Str("create")
         THEN Effect("exec", "kubectl create namespace", Arg(p, "namespace"))
         ELSE Effect("exec", "kubectl get namespace", Arg(p, "namespace"))
    [] name = "run_storage_benchmark"   -> Effect("api", "readNamespace", <<>>)
    [] name = "run_network_test"        -> Effect("exec", "kubectl create namespace", <<>>)
    [] OTHER                            -> Effect("api", "createNamespace", <<>>)

GenericTools ==
  {"detect_resource_issues", "analyze_pod_disruptions", "check_node_conditions",
   "monitor_deployments", "run_storage_benchmark", "run_network_test",
   "run_cpu_stress_test", "run_database_benchmark"}

NoError == [thrown |-> FALSE, e |-> NoMessage]
Throws(m) == [thrown |-> TRUE, e |-> m]

\* what a handler throws between its entry and its first command or API call
EntryError(name, hasArgs, p) ==
  CASE TakesArgsObject(name) /\ ~hasArgs ->
         Throws(Message(<<"Cannot destructure property of 'args' as it is undefined.">>, <<>>))
    [] name = "create_deployment" /\ hasArgs /\ ~IsArray(p["ports"]) ->
         Throws(Message(<<"ports.map is not a function">>, <<>>))
    [] name = "deploy_database" /\ hasArgs
         /\ ~Includes({"postgresql", "mysql", "mongodb", "redis"}, p["type"]) ->
         Throws(Message(<<"Unsupported database type: ", p["type"].s>>, <<>>))
    [] name = "run_kube_burner" /\ hasArgs
         /\ ~Includes({"create", "cleanup", "both"}, p["operation"]) ->
         Throws(Message(<<"operation must be one of: create, cleanup, both">>, <<>>))
    [] OTHER -> NoError

(***************************************************************************)
(* The state machine.                                                      *)
(***************************************************************************)
\* The node loop of the two service checks: the node list once it has been
\* read, the position in it, and what the loop has collected.  `probes` keeps
\* what the cluster did for each node: the output of its status probe, and
\* whether the status probe or the log query of the node threw.
NoLoop == [listed |-> FALSE, nodes |-> 0, i |-> 0, status |-> <<>>, probes |-> <<>>,
           logs |-> <<>>, extra |-> <<>>]

Init ==
  /\ pc = "idle"
  /\ request = NoRequest
  /\ response = NoResponse
  /\ invoked = ""
  /\ params = NoArgs
  /\ effects = <<>>
  /\ outcome = "none"
  /\ rawError = NoMessage
  /\ loop = NoLoop

\* the transport delivers a CallTool request
Receive ==
  /\ pc = "idle"
  /\ \E req \in Requests : request' = req
  /\ pc' = "received"
  /\ UNCHANGED <<response, invoked, params, effects, outcome, rawError, loop>>

\* ReturnError without the catch for what a handler throws: the rejection of
\* the handler's promise leaves the request handler
ReturnErrorRethrown(name, m, how) ==
  /\ pc' = IF how = "handlerError" THEN "escaped" ELSE "responded"
  /\ response' = IF how = "handlerError" THEN response ELSE ErrorResult(name, m)
  /\ outcome' = how
  /\ rawError' = m

\* The try/catch of the CallTool handler: whatever is thrown inside the try
\* block becomes the returned object.
ReturnError(name, m, how) ==
  /\ pc' = "responded"
  /\ response' = ErrorResult(name, m)
  /\ outcome' = how
  /\ rawError' = m

\* a handler returns its report
ReturnResult(result) ==
  /\ pc' = "responded"
  /\ response' = result
  /\ outcome' = "success"
  /\ rawError' = NoMessage

\* validateToolArguments throws
DispatchReject ==
  /\ pc = "received"
  /\ validateToolArguments(request.name, request.hasArgs, request.args) # ""
  /\ ReturnError(request.name,
                 Message(<<validateToolArguments(request.name, request.hasArgs,
                                                 request.args)>>, <<>>),
                 "validationError")
  /\ UNCHANGED <<request, invoked, params, effects, loop>>

\* the default case of the switch
DispatchUnknown ==
  /\ pc = "received"
  /\ validateToolArguments(request.name, request.hasArgs, request.args) = ""
  /\ HandlerOf(request.name) = ""
  /\ ReturnError(request.name, Message(<<"Unknown tool: ", request.name>>, <<>>),
                 "unknownTool")
  /\ UNCHANGED <<request, invoked, params, effects, loop>>

\* a case of the switch calls its handler
DispatchInvoke ==
  /\ pc = "received"
  /\ validateToolArguments(request.name, request.hasArgs, request.args) = ""
  /\ HandlerOf(request.name) # ""
  /\ invoked' = HandlerOf(request.name)
  /\ params' = HandlerParams(request.name, request.args)
  /\ pc' = "running"
  /\ UNCHANGED <<request, response, effects, outcome, rawError, loop>>

\* a handler throws before it has run a command or called the cluster
HandlerEntryFault ==
  /\ pc = "running"
  /\ EntryError(request.name, request.hasArgs, params).thrown
  /\ ReturnError(request.name,
                 HandlerCatch(FailurePrefix(request.name),
                              EntryError(request.name, request.hasArgs, params).e),
                 "handlerError")
  /\ UNCHANGED <<request, invoked, params, effects, loop>>

\* a handler runs its commands and API calls, and all of them succeed
HandlerSucceeds ==
  /\ pc = "running"
  /\ request.name \in GenericTools
  /\ ~EntryError(request.name, request.hasArgs, params).thrown
  /\ effects' = <<FirstIO(request.name, params)>>
  /\ ReturnResult(TextResult(SuccessHead(request.name), <<>>))
  /\ UNCHANGED <<request, invoked, params, loop>>

\* the first command or API call of a handler fails
HandlerFails ==
  /\ pc = "running"
  /\ request.name \in GenericTools
  /\ ~EntryError(request.name, request.hasArgs, params).thrown
  /\ effects' = <<FirstIO(request.name, params)>>
  /\ \E rej \in Rejections :
       ReturnError(request.name, HandlerCatch(FailurePrefix(request.name), rej), "handlerError")
  /\ UNCHANGED <<request, invoked, params, loop>>

(***************************************************************************)
(* checkClusterHealth.                                                     *)
(***************************************************************************)
PENDING_POD_TIMEOUT == 5 * 60 * 1000
DEFAULT_RESTART_THRESHOLD == 5

MaxNodes == 2
MaxPods == 2

\* a node as the health check reads it: whether its Ready condition is True,
\* and whether it has another condition (memory pressure) whose status is True
NodeStates == [ready : BOOLEAN, pressure : BOOLEAN]

\* a pod as the health check reads it: its phase, its age in milliseconds,
\* and the restart count of its container
PodStates ==
  {p \in [phase : {"Running", "Pending", "Failed", "Unknown"},
          age : {PENDING_POD_TIMEOUT, PENDING_POD_TIMEOUT + 1},
          restartCount : {DEFAULT_RESTART_THRESHOLD, DEFAULT_RESTART_THRESHOLD + 1}] :
     p.phase # "Pending" => p.age = PENDING_POD_TIMEOUT + 1}

SeqsUpTo(S, n) == UNION {[1..k -> S] : k \in 0..n}

\* the issues the loop body pushes for one node
NodeIssues(node) ==
  (IF node.ready THEN <<>> ELSE <<"node is not ready">>)
    \o (IF node.pressure THEN <<"node condition">> ELSE <<>>)

\* the issues the loop body pushes for one pod
PodIssues(pod) ==
  (CASE pod.phase \in {"Running", "Succeeded"} -> <<>>
     [] pod.phase = "Pending" /\ pod.age > PENDING_POD_TIMEOUT -> <<"pod stuck in Pending state">>
     [] pod.phase = "Failed" -> <<"pod in Failed state">>
     [] OTHER -> <<>>)
    \o (IF pod.restartCount > DEFAULT_RESTART_THRESHOLD THEN <<"container restarts">> ELSE <<>>)

RECURSIVE CollectNodeIssues(_)
CollectNodeIssues(nodes) ==
  IF nodes = <<>> THEN <<>> ELSE NodeIssues(Head(nodes)) \o CollectNodeIssues(Tail(nodes))

RECURSIVE CollectPodIssues(_)
CollectPodIssues(pods) ==
  IF pods = <<>> THEN <<>> ELSE PodIssues(Head(pods)) \o CollectPodIssues(Tail(pods))

CountHealthyNodes(nodes) == Cardinality({i \in 1..Len(nodes) : nodes[i].ready})

CountHealthyPods(pods) ==
  Cardinality({i \in 1..Len(pods) : pods[i].phase \in {"Running", "Succeeded"}})

\* `(healthy / total) * 100 > percent`, where the metric is 0 for an empty list
HealthAbove(healthy, total, percent) == total > 0 /\ healthy * 100 > percent * total

\* the classification without the cap on the number of issues
OverallHealthUncapped(issueCount, healthyNodes, totalNodes, healthyPods, totalPods) ==
  IF issueCount = 0 THEN "healthy"
  ELSE IF HealthAbove(healthyNodes, totalNodes, 90) /\ HealthAbove(healthyPods, totalPods, 95)
       THEN "warning"
       ELSE "critical"

\* "Determine overall health"
OverallHealth(issueCount, healthyNodes, totalNodes, healthyPods, totalPods) ==
  IF issueCount = 0 THEN "healthy"
  ELSE IF issueCount <= 3 /\ HealthAbove(healthyNodes, totalNodes, 90)
            /\ HealthAbove(healthyPods, totalPods, 95)
       THEN "warning"
       ELSE "critical"

\* the summary object of the report
HealthSummary(nodes, pods, detailed) ==
  LET issues == CollectNodeIssues(nodes) \o CollectPodIssues(pods)
  IN  [status |-> OverallHealth(Len(issues), CountHealthyNodes(nodes), Len(nodes),
                                CountHealthyPods(pods), Len(pods)),
       totalNodes |-> Len(nodes),
       healthyNodes |-> CountHealthyNodes(nodes),
       totalPods |-> Len(pods),
       healthyPods |-> CountHealthyPods(pods),
       issuesFound |-> Len(issues),
       detailedIssues |-> IF Truthy(detailed) THEN issues ELSE <<>>]

HealthCalls ==
  <<Effect("api", "listNode", <<>>), Effect("api", "listPodForAllNamespaces", <<>>)>>

\* listNode and listPodForAllNamespaces answer: the report is returned
HealthReport ==
  /\ pc = "running"
  /\ request.name = "check_cluster_health"
  /\ effects' = HealthCalls
  /\ \E nodes \in SeqsUpTo(NodeStates, MaxNodes), pods \in SeqsUpTo(PodStates, MaxPods) :
       ReturnResult(TextResult(SuccessHead(request.name),
                               HealthSummary(nodes, pods, params["detailed"])))
  /\ UNCHANGED <<request, invoked, params, loop>>

\* one of the two calls is rejected, or answers without an item list
HealthFails ==
  /\ pc = "running"
  /\ request.name = "check_cluster_health"
  /\ effects' = HealthCalls
  /\ \E m \in Rejections \cup {Message(<<"Failed to retrieve nodes from cluster">>, <<>>),
                               Message(<<"Failed to retrieve pods from cluster">>, <<>>)} :
       ReturnError(request.name, HandlerCatch(FailurePrefix(request.name), m), "handlerError")
  /\ UNCHANGED <<request, invoked, params, loop>>

(***************************************************************************)
(* checkKubeletStatus and checkCrioStatus: the node list, then one pass of *)
(* the loop body per node, then the report.  The nodes of the list are     *)
(* identified by their position in it (node names are unique).             *)
(***************************************************************************)
MaxDiagNodes == 3

DiagTools == {"check_kubelet_status", "check_crio_status"}

\* the parameter that asks for the additional journal query of each node
ExtraFlag(name) ==
  IF name = "check_kubelet_status" THEN "includeSystemErrors" ELSE "includeContainerErrors"

\* what `systemctl is-active ... || echo "inactive"` prints
ProbeOutputs == {"active\n", "inactive\n"}

\* stdout.trim()
Trim(out) ==
  CASE out = "active\n"   -> "active"
    [] out = "inactive\n" -> "inactive"
    [] OTHER              -> out

\* A journal line is told by the word the loop looks for in it.
LogOutputs == {<<>>, <<"error", "info", "warn">>}

\* the entries pushed for the lines that hold 'error', 'failed' or 'warn'
RECURSIVE LogEntries(_, _)
LogEntries(node, lines) ==
  IF lines = <<>> THEN <<>>
  ELSE (IF Head(lines) \in {"error", "failed", "warn"}
        THEN <<[node |-> node,
                level |-> IF Head(lines) \in {"error", "failed"} THEN "error" ELSE "warning",
                message |-> Message(<<Head(lines)>>, <<>>)]>>
        ELSE <<>>) \o LogEntries(node, Tail(lines))

\* the entries pushed for the lines of the additional query: every line for
\* the kubelet, the lines that hold 'error' or 'failed' for CRI-O
RECURSIVE ExtraEntries(_, _, _)
ExtraEntries(name, node, lines) ==
  IF lines = <<>> THEN <<>>
  ELSE (IF name = "check_kubelet_status" \/ Head(lines) \in {"error", "failed"}
        THEN <<[node |-> node, message |-> Head(lines)]>>
        ELSE <<>>) \o ExtraEntries(name, node, Tail(lines))

\* the additional query of a node: its lines, or a failure, which the inner
\* try/catch only logs
ExtraOutcomes == {[ok |-> FALSE, lines |-> <<>>], [ok |-> TRUE, lines |-> <<"error", "info">>]}

\* a command run on a node through `oc debug node/...`, with hoursBack in
\* the journalctl command lines
DebugNode(what, p) ==
  Effect("exec", what, IF what = "systemctl is-active" THEN <<>> ELSE Arg(p, "hoursBack"))

\* array.slice(0, n)
Slice(seq, n) == SubSeq(seq, 1, IF Len(seq) < n THEN Len(seq) ELSE n)

\* `kubectl get nodes -o json` fails, or prints no JSON
DiagNodesFail ==
  /\ pc = "running"
  /\ request.name \in DiagTools
  /\ effects' = <<Effect("exec", "kubectl get nodes -o json", <<>>)>>
  /\ \E m \in Rejections \cup {Message(<<"Unexpected end of JSON input">>, <<>>)} :
       ReturnError(request.name, HandlerCatch(FailurePrefix(request.name), m), "handlerError")
  /\ UNCHANGED <<request, invoked, params, loop>>

\* `kubectl get nodes -o json` lists no node: the handler throws
DiagNoNodes ==
  /\ pc = "running"
  /\ request.name \in DiagTools
  /\ effects' = <<Effect("exec", "kubectl get nodes -o json", <<>>)>>
  /\ loop' = [NoLoop EXCEPT !.listed = TRUE]
  /\ ReturnError(request.name,
                 HandlerCatch(FailurePrefix(request.name),
                              Message(<<"No nodes found in cluster">>, <<>>)),
                 "handlerError")
  /\ UNCHANGED <<request, invoked, params>>

\* `kubectl get nodes -o json` lists the nodes of the cluster
DiagNodesListed ==
  /\ pc = "running"
  /\ request.name \in DiagTools
  /\ effects' = <<Effect("exec", "kubectl get nodes -o json", <<>>)>>
  /\ \E k \in 1..MaxDiagNodes :
       loop' = [NoLoop EXCEPT !.listed = TRUE, !.nodes = k, !.i = 1]
  /\ pc' = "nodeLoop"
  /\ UNCHANGED <<request, response, invoked, params, outcome, rawError>>

\* the loop body for the next node, when the status probe and the log query
\* of the node both succeed
DiagNodeProbed ==
  /\ pc = "nodeLoop"
  /\ loop.i <= loop.nodes
  /\ \E out \in ProbeOutputs, lines \in LogOutputs, more \in ExtraOutcomes :
       LET wanted == Truthy(params[ExtraFlag(request.name)])
       IN  /\ loop' = [loop EXCEPT
                         !.i = @ + 1,
                         !.status = (loop.i :> Trim(out)) @@ @,
                         !.probes = (loop.i :> [threw |-> FALSE, out |-> out]) @@ @,
                         !.logs = @ \o LogEntries(loop.i, lines),
                         !.extra = IF wanted /\ more.ok
                                   THEN @ \o ExtraEntries(request.name, loop.i, more.lines)
                                   ELSE @]
           /\ effects' = effects \o <<DebugNode("systemctl is-active", params),
                                      DebugNode("journalctl -u", params)>>
                                 \o (IF wanted THEN <<DebugNode("journalctl | grep", params)>>
                                     ELSE <<>>)
  /\ UNCHANGED <<pc, request, response, invoked, params, outcome, rawError>>

\* the loop body without its try/catch: what a probe of the node throws
\* reaches the catch of the handler
DiagNodeAborts ==
  /\ pc = "nodeLoop"
  /\ loop.i <= loop.nodes
  /\ \E m \in Rejections :
       ReturnError(request.name, HandlerCatch(FailurePrefix(request.name), m), "handlerError")
  /\ effects' = Append(effects, DebugNode("systemctl is-active", params))
  /\ loop' = [loop EXCEPT !.probes = (loop.i :> [threw |-> TRUE, out |-> ""]) @@ @]
  /\ UNCHANGED <<request, invoked, params>>

\* the loop body for the next node, when the status probe throws, or the
\* status probe answers and the log query throws: the catch of the loop body
DiagNodeInaccessible ==
  /\ pc = "nodeLoop"
  /\ loop.i <= loop.nodes
  /\ \E probeAnswers \in BOOLEAN, out \in ProbeOutputs, m \in {Message(<<>>, MsgTimedOut)} :
       LET assigned == IF probeAnswers THEN (loop.i :> Trim(out)) @@ loop.status
                       ELSE loop.status
       IN  /\ loop' = [loop EXCEPT
                         !.i = @ + 1,
                         !.status = (loop.i :> "inaccessible") @@ assigned,
                         !.probes = (loop.i :> [threw |-> TRUE,
                                                out |-> IF probeAnswers THEN out ELSE ""]) @@ @,
                         !.logs = Append(@, [node |-> loop.i, level |-> "error",
                                             message |-> Wrap("Cannot access service on node: ", m)])]
           /\ effects' = effects \o <<DebugNode("systemctl is-active", params)>>
                                 \o (IF probeAnswers THEN <<DebugNode("journalctl -u", params)>>
                                     ELSE <<>>)
  /\ UNCHANGED <<pc, request, response, invoked, params, outcome, rawError>>

\* after the last node: the report
DiagReport ==
  /\ pc = "nodeLoop"
  /\ loop.i > loop.nodes
  /\ LET wanted == Truthy(params[ExtraFlag(request.name)])
     IN  ReturnResult(TextResult(SuccessHead(request.name),
           [nodesChecked |-> loop.nodes,
            status |-> loop.status,
            logsAnalyzed |-> Len(loop.logs),
            extraErrors |-> IF wanted THEN Num(Len(loop.extra)) ELSE Str("not_requested"),
            recentIssues |-> Slice(loop.logs, 10),
            extraIssues |-> IF wanted THEN Slice(loop.extra, 5) ELSE <<>>]))
  /\ UNCHANGED <<request, invoked, params, effects, loop>>

(***************************************************************************)
(* getPerformanceMetrics: two commands, each inside its own try/catch, so  *)
(* the handler reports whatever the commands do.                           *)
(***************************************************************************)
MetricsCommands(p) ==
  <<Effect("exec", "kubectl top nodes --no-headers", <<>>),
    IF Truthy(p["namespace"])
    THEN Effect("exec", "kubectl top pods -n", Arg(p, "namespace"))
    ELSE Effect("exec", "kubectl top pods --all-namespaces", <<>>)>>

MetricsReport ==
  /\ pc = "running"
  /\ request.name = "get_performance_metrics"
  /\ effects' = MetricsCommands(params)
  /\ \E nodesAnswer \in BOOLEAN, podsAnswer \in BOOLEAN :
       ReturnResult(TextResult(SuccessHead(request.name),
         [nodes |-> IF nodesAnswer THEN "metrics" ELSE "Metrics unavailable",
          pods  |-> IF podsAnswer THEN "metrics" ELSE "Metrics unavailable"]))
  /\ UNCHANGED <<request, invoked, params, loop>>

(***************************************************************************)
(* analyzeJournalctlPodErrors: the node list, then one command on the      *)
(* first node.  Its catch returns an error result of its own.              *)
(***************************************************************************)
\* the object the catch of analyzeJournalctlPodErrors returns
JournalErrorResult(m) ==
  [content |-> <<[type |-> "text",
                  text |-> [pre |-> <<"Error analyzing journalctl logs: ">> \o m.pre,
                            raw |-> m.raw,
                            post |-> <<" [DEBUG: Raw error]">>,
                            payload |-> <<>>]]>>,
   isError |-> Bool(TRUE)]

\* the values of the request that journalCommand is built from
JournalCommand(p) ==
  Effect("exec", "oc debug node -- chroot /host bash -c journalctl",
         Arg(p, "hoursBack") \o IfTruthy(p, "service") \o Arg(p, "errorTypes")
           \o IfTruthy(p, "pod"))

\* listNode answers with the nodes of the cluster, and the command is built
\* for `nodes.items[0]`: the first of them
JournalNode ==
  \E k \in 1..MaxDiagNodes :
    loop' = [NoLoop EXCEPT !.listed = TRUE, !.nodes = k, !.i = 1]

\* listNode is rejected or lists no node; or the command fails
JournalFails ==
  /\ pc = "running"
  /\ request.name = "analyze_journalctl_pod_errors"
  /\ \E reached \in {"listNode", "exec"} :
       /\ effects' = <<Effect("api", "listNode", <<>>)>>
                       \o (IF reached = "exec" THEN <<JournalCommand(params)>> ELSE <<>>)
       /\ \E m \in Rejections
                 \cup (IF reached = "listNode"
                       THEN {Message(<<"No nodes found in cluster">>, <<>>)} ELSE {}) :
            /\ pc' = "responded"
            /\ response' = JournalErrorResult(m)
            /\ outcome' = "handlerError"
            /\ rawError' = m
       /\ IF reached = "exec" THEN JournalNode ELSE loop' = NoLoop
  /\ UNCHANGED <<request, invoked, params>>

\* the command prints the journal lines: the analysis is returned
JournalReport ==
  /\ pc = "running"
  /\ request.name = "analyze_journalctl_pod_errors"
  /\ effects' = <<Effect("api", "listNode", <<>>), JournalCommand(params)>>
  /\ JournalNode
  /\ ReturnResult(TextResult(SuccessHead(request.name),
                             [timeRange |-> params["hoursBack"],
                              pod |-> params["pod"],
                              service |-> params["service"]]))
  /\ UNCHANGED <<request, invoked, params>>

(***************************************************************************)
(* createDeployment: the namespace is read and created when it is missing, *)
(* then the manifest is piped into `kubectl apply`.                        *)
(***************************************************************************)
\* the calls that make sure of the namespace: readNamespace answers, or is
\* rejected with 404 and createNamespace follows, or is rejected otherwise,
\* which the handler ignores
EnsureNamespace(p, found) ==
  <<Effect("api", "readNamespace", Arg(p, "namespace"))>>
    \o (IF found = "404" THEN <<Effect("api", "createNamespace", Arg(p, "namespace"))>>
        ELSE <<>>)

\* the resources block of the manifest text
ManifestResources(resources) ==
  [cpuRequest    |-> OrElse(Member(resources, "cpuRequest"), Str("100m")),
   memoryRequest |-> OrElse(Member(resources, "memoryRequest"), Str("128Mi")),
   cpuLimit      |-> OrElse(Member(resources, "cpuLimit"),
                            OrElse(Member(resources, "cpuRequest"), Str("100m"))),
   memoryLimit   |-> OrElse(Member(resources, "memoryLimit"),
                            OrElse(Member(resources, "memoryRequest"), Str("128Mi")))]

\* echo '${deploymentYaml}' | kubectl apply -f -
ApplyDeployment(p) ==
  Effect("exec", "echo deploymentYaml | kubectl apply -f -",
         Arg(p, "name") \o Arg(p, "namespace") \o Arg(p, "replicas") \o Arg(p, "image")
           \o Arg(p, "resources"))

\* what createNamespace is rejected with when the namespace was created by
\* someone else after readNamespace answered 404
AlreadyExists == Message(<<"HTTP request failed: 409 namespace already exists">>, <<>>)

\* what createNamespace can be rejected with
NamespaceRejections == Rejections \cup {AlreadyExists}

\* createNamespace is rejected, or `kubectl apply` fails
DeployFails ==
  /\ pc = "running"
  /\ request.name = "create_deployment"
  /\ ~EntryError(request.name, request.hasArgs, params).thrown
  /\ \E found \in {"yes", "404", "other"}, reached \in {"createNamespace", "apply"} :
       /\ reached = "createNamespace" => found = "404"
       /\ effects' = EnsureNamespace(params, found)
                       \o (IF reached = "apply" THEN <<ApplyDeployment(params)>> ELSE <<>>)
       /\ \E m \in IF reached = "createNamespace" THEN NamespaceRejections ELSE Rejections :
            ReturnError(request.name, HandlerCatch(FailurePrefix(request.name), m),
                        "handlerError")
  /\ UNCHANGED <<request, invoked, params, loop>>

\* `kubectl apply` succeeds
DeployApplied ==
  /\ pc = "running"
  /\ request.name = "create_deployment"
  /\ ~EntryError(request.name, request.hasArgs, params).thrown
  /\ \E found \in {"yes", "404", "other"} :
       effects' = EnsureNamespace(params, found) \o <<ApplyDeployment(params)>>
  /\ ReturnResult(TextResult(SuccessHead(request.name),
                             [name |-> params["name"],
                              namespace |-> params["namespace"],
                              replicas |-> params["replicas"],
                              image |-> params["image"],
                              resources |-> ManifestResources(params["resources"])]))
  /\ UNCHANGED <<request, invoked, params, loop>>

(***************************************************************************)
(* deployDatabase, createService and createNetworkPolicy: the namespace is *)
(* read and created when it is missing, as in createDeployment, then the   *)
(* manifests are piped into `kubectl apply`, one command per manifest.     *)
(***************************************************************************)
ManifestTools == {"deploy_database", "create_service", "create_network_policy"}

\* the `kubectl apply` commands of a handler, in order
ManifestApplies(name, p) ==
  CASE name = "deploy_database" ->
         <<Effect("exec", "echo pvcYaml | kubectl apply -f -",
                  Arg(p, "name") \o Arg(p, "namespace") \o Arg(p, "storageSize")),
           Effect("exec", "echo dbDeploymentYaml | kubectl apply -f -",
                  Arg(p, "name") \o Arg(p, "namespace") \o Arg(p, "resources")),
           Effect("exec", "echo dbServiceYaml | kubectl apply -f -",
                  Arg(p, "name") \o Arg(p, "namespace"))>>
    [] name = "create_service" ->
         <<Effect("exec", "echo serviceYaml | kubectl apply -f -",
                  Arg(p, "name") \o Arg(p, "namespace") \o Arg(p, "selector") \o Arg(p, "ports")
                    \o Arg(p, "type"))>>
    [] OTHER ->
         <<Effect("exec", "echo networkPolicyYaml | kubectl apply -f -",
                  Arg(p, "name") \o Arg(p, "namespace") \o Arg(p, "podSelector"))>>

\* createNamespace is rejected, or one of the `kubectl apply` commands fails
ManifestFails ==
  /\ pc = "running"
  /\ request.name \in ManifestTools
  /\ ~EntryError(request.name, request.hasArgs, params).thrown
  /\ \E found \in {"yes", "404", "other"},
        reached \in 0..Len(ManifestApplies(request.name, params)) :
       /\ reached = 0 => found = "404"
       /\ effects' = EnsureNamespace(params, found)
                       \o SubSeq(ManifestApplies(request.name, params), 1, reached)
       /\ \E m \in IF reached = 0 THEN NamespaceRejections ELSE Rejections :
            ReturnError(request.name, HandlerCatch(FailurePrefix(request.name), m),
                        "handlerError")
  /\ UNCHANGED <<request, invoked, params, loop>>

\* every `kubectl apply` succeeds
ManifestApplied ==
  /\ pc = "running"
  /\ request.name \in ManifestTools
  /\ ~EntryError(request.name, request.hasArgs, params).thrown
  /\ \E found \in {"yes", "404", "other"} :
       effects' = EnsureNamespace(params, found) \o ManifestApplies(request.name, params)
  /\ ReturnResult(TextResult(SuccessHead(request.name),
                             [name |-> params["name"], namespace |-> params["namespace"]]))
  /\ UNCHANGED <<request, invoked, params, loop>>

(***************************************************************************)
(* createHPA: the target deployment is looked up with kubectl, then the    *)
(* manifest is piped into `kubectl apply`.  The namespace is not read.     *)
(***************************************************************************)
VerifyDeployment(p) ==
  Effect("exec", "kubectl get deployment", Arg(p, "targetDeployment") \o Arg(p, "namespace"))

ApplyHpa(p) ==
  Effect("exec", "echo hpaYaml | kubectl apply -f -",
         Arg(p, "targetDeployment") \o Arg(p, "namespace") \o Arg(p, "minReplicas")
           \o Arg(p, "maxReplicas") \o Arg(p, "cpuTarget") \o Arg(p, "memoryTarget"))

\* the lookup fails: whatever it failed with, the handler reports the
\* deployment as not found
HpaTargetNotFound ==
  /\ pc = "running"
  /\ request.name = "create_hpa"
  /\ ~EntryError(request.name, request.hasArgs, params).thrown
  /\ effects' = <<VerifyDeployment(params)>>
  /\ ReturnError(request.name,
                 HandlerCatch(FailurePrefix(request.name),
                              Message(<<"Deployment not found in namespace">>, <<>>)),
                 "handlerError")
  /\ UNCHANGED <<request, invoked, params, loop>>

\* `kubectl apply` of the manifest fails
HpaFails ==
  /\ pc = "running"
  /\ request.name = "create_hpa"
  /\ ~EntryError(request.name, request.hasArgs, params).thrown
  /\ effects' = <<VerifyDeployment(params), ApplyHpa(params)>>
  /\ \E m \in Rejections :
       ReturnError(request.name,
                   HandlerCatch(FailurePrefix(request.name),
                                Wrap("Failed to create HPA (check if metrics-server is installed): ",
                                     m)),
                   "handlerError")
  /\ UNCHANGED <<request, invoked, params, loop>>

\* `kubectl apply` of the manifest succeeds
HpaApplied ==
  /\ pc = "running"
  /\ request.name = "create_hpa"
  /\ ~EntryError(request.name, request.hasArgs, params).thrown
  /\ effects' = <<VerifyDeployment(params), ApplyHpa(params)>>
  /\ ReturnResult(TextResult(SuccessHead(request.name),
                             [targetDeployment |-> params["targetDeployment"],
                              namespace |-> params["namespace"],
                              minReplicas |-> params["minReplicas"],
                              maxReplicas |-> params["maxReplicas"]]))
  /\ UNCHANGED <<request, invoked, params, loop>>

(***************************************************************************)
(* runKubeBurner: the cleanup phase (operation 'cleanup' or 'both'), then  *)
(* the create phase (operation 'create' or 'both'): the namespace, one     *)
(* `kubectl apply` per pod manifest, and the automatic cleanup.  While the *)
(* handler runs, `loop` holds its position, whether the test namespace     *)
(* exists in the cluster, and the results object it builds.                *)
(***************************************************************************)
\* `const podCount = iterations * 10` for node-density, `iterations * 5` in
\* the else branch, which every other test type takes
PodCount(testType, iterations) ==
  IF testType = Str("node-density") THEN iterations.n * 10 ELSE iterations.n * 5

BurnerCommand(what, p) == Effect("exec", what, Arg(p, "namespace"))

\* echo '${podManifest}' | kubectl apply -f -
ApplyPod(p) ==
  Effect("exec", "echo podManifest | kubectl apply -f -",
         Arg(p, "namespace") \o (IF p["testType"] = Str("node-density") THEN <<>>
                                 ELSE Arg(p, "testType")))

\* the handler has read its arguments; the test namespace exists or not
BurnerStart ==
  /\ pc = "running"
  /\ request.name = "run_kube_burner"
  /\ ~EntryError(request.name, request.hasArgs, params).thrown
  /\ \E exists \in BOOLEAN :
       loop' = [phase |-> IF params["operation"] \in {Str("cleanup"), Str("both")}
                          THEN "cleanup" ELSE "create",
                nsExists |-> exists,
                podCount |-> PodCount(params["testType"], params["iterations"]),
                applied |-> 0,
                cleanup |-> "",
                created |-> FALSE]
  /\ pc' = "burner"
  /\ UNCHANGED <<request, response, invoked, params, effects, outcome, rawError>>

\* the report: results with status 'Completed'
BurnerResult(l) ==
  TextResult(SuccessHead(request.name),
             [operation |-> params["operation"],
              status |-> "Completed",
              cleanup |-> l.cleanup,
              creation |-> IF l.created
                           THEN [podsCreated |-> l.podCount, status |-> "Completed"]
                           ELSE [podsCreated |-> 0, status |-> ""]])

\* the cleanup phase without its early return: the create phase follows
\* whatever the operation is
AfterCleanupFallsThrough(l) ==
  /\ loop' = [l EXCEPT !.phase = "create"]
  /\ UNCHANGED <<pc, response, outcome, rawError>>

\* after the cleanup phase: the report for operation 'cleanup', the create
\* phase for 'both'
AfterCleanup(l) ==
  IF params["operation"] = Str("cleanup")
  THEN /\ loop' = l
       /\ ReturnResult(BurnerResult(l))
  ELSE /\ loop' = [l EXCEPT !.phase = "create"]
       /\ UNCHANGED <<pc, response, outcome, rawError>>

\* cleanup phase: the namespace is there, its pods are counted and it is deleted
BurnerCleaned ==
  /\ pc = "burner"
  /\ loop.phase = "cleanup"
  /\ loop.nsExists
  /\ effects' = effects \o <<BurnerCommand("kubectl get namespace", params),
                             BurnerCommand("kubectl get pods | wc -l", params),
                             BurnerCommand("kubectl delete namespace", params)>>
  /\ AfterCleanup([loop EXCEPT !.nsExists = FALSE, !.cleanup = "Completed"])
  /\ UNCHANGED <<request, invoked, params>>

\* cleanup phase: `kubectl get namespace` answers that there is none
BurnerNothingToClean ==
  /\ pc = "burner"
  /\ loop.phase = "cleanup"
  /\ ~loop.nsExists
  /\ effects' = Append(effects, BurnerCommand("kubectl get namespace", params))
  /\ AfterCleanup([loop EXCEPT !.cleanup = "Namespace not found - already clean"])
  /\ UNCHANGED <<request, invoked, params>>

\* cleanup phase: one of its three commands fails otherwise
BurnerCleanupFails ==
  /\ pc = "burner"
  /\ loop.phase = "cleanup"
  /\ \E reached \in 1..3 :
       /\ reached > 1 => loop.nsExists
       /\ effects' = effects \o SubSeq(<<BurnerCommand("kubectl get namespace", params),
                                         BurnerCommand("kubectl get pods | wc -l", params),
                                         BurnerCommand("kubectl delete namespace", params)>>,
                                       1, reached)
  /\ \E m \in Rejections :
       ReturnError(request.name,
                   HandlerCatch(FailurePrefix(request.name), Wrap("Cleanup failed: ", m)),
                   "handlerError")
  /\ UNCHANGED <<request, invoked, params, loop>>

\* create phase: `kubectl create namespace`; a failure is at most logged
BurnerCreateNamespace ==
  /\ pc = "burner"
  /\ loop.phase = "create"
  /\ effects' = Append(effects, BurnerCommand("kubectl create namespace", params))
  /\ \E answer \in {"created", "already exists", "failed"} :
       /\ (answer = "created") => ~loop.nsExists
       /\ (answer = "already exists") => loop.nsExists
       /\ loop' = [loop EXCEPT !.phase = "pods",
                               !.nsExists = IF answer = "created" THEN TRUE ELSE @]
  /\ UNCHANGED <<pc, request, response, invoked, params, outcome, rawError>>

\* create phase: the next pod manifest is applied
BurnerApplyPod ==
  /\ pc = "burner"
  /\ loop.phase = "pods"
  /\ loop.applied < loop.podCount
  /\ loop.nsExists
  /\ effects' = Append(effects, ApplyPod(params))
  /\ loop' = [loop EXCEPT !.applied = @ + 1]
  /\ UNCHANGED <<pc, request, response, invoked, params, outcome, rawError>>

\* create phase: `kubectl apply` of the next pod manifest fails
BurnerApplyFails ==
  /\ pc = "burner"
  /\ loop.phase = "pods"
  /\ loop.applied < loop.podCount
  /\ effects' = Append(effects, ApplyPod(params))
  /\ \E m \in Rejections :
       ReturnError(request.name, HandlerCatch(FailurePrefix(request.name), m), "handlerError")
  /\ UNCHANGED <<request, invoked, params, loop>>

\* create phase done, no automatic cleanup: the report
BurnerCreated ==
  /\ pc = "burner"
  /\ loop.phase = "pods"
  /\ loop.applied = loop.podCount
  /\ ~(Truthy(params["cleanup"]) /\ params["operation"] = Str("create"))
  /\ loop' = [loop EXCEPT !.created = TRUE]
  /\ ReturnResult(BurnerResult(loop'))
  /\ UNCHANGED <<request, invoked, params, effects>>

\* the automatic cleanup without its try/catch: a failed deletion reaches
\* the catch of the handler
BurnerAutoCleanupThrows ==
  /\ pc = "burner"
  /\ loop.phase = "pods"
  /\ loop.applied = loop.podCount
  /\ Truthy(params["cleanup"]) /\ params["operation"] = Str("create")
  /\ effects' = Append(effects, BurnerCommand("kubectl delete namespace", params))
  /\ \E deleted \in BOOLEAN :
       /\ loop' = [loop EXCEPT !.created = TRUE,
                               !.nsExists = IF deleted THEN FALSE ELSE @,
                               !.cleanup = IF deleted THEN "Automatic cleanup completed"
                                           ELSE "Cleanup failed: "]
       /\ IF deleted THEN ReturnResult(BurnerResult(loop'))
          ELSE ReturnError(request.name,
                           HandlerCatch(FailurePrefix(request.name),
                                        Message(<<"Cleanup failed: ">>, MsgTimedOut)),
                           "handlerError")
  /\ UNCHANGED <<request, invoked, params>>

\* create phase done, `cleanup && operation === 'create'`: the namespace is
\* deleted, or the failure to delete it is noted in the results; the report
BurnerAutoCleanup ==
  /\ pc = "burner"
  /\ loop.phase = "pods"
  /\ loop.applied = loop.podCount
  /\ Truthy(params["cleanup"]) /\ params["operation"] = Str("create")
  /\ effects' = Append(effects, BurnerCommand("kubectl delete namespace", params))
  /\ \E deleted \in BOOLEAN :
       loop' = [loop EXCEPT !.created = TRUE,
                            !.nsExists = IF deleted THEN FALSE ELSE @,
                            !.cleanup = IF deleted THEN "Automatic cleanup completed"
                                        ELSE "Cleanup failed: "]
  /\ ReturnResult(BurnerResult(loop'))
  /\ UNCHANGED <<request, invoked, params>>

\* the options a handler passes to exec with a command: the timeout in
\* milliseconds and the maxBuffer in megabytes, 0 where the call passes none
\* (exec then waits without limit for the command to end)
ExecOptions(name, what) ==
  CASE name = "analyze_journalctl_pod_errors" -> [timeout |-> 90000, maxBuffer |-> 5]
    [] name \in DiagTools /\ what = "kubectl get nodes -o json" ->
         [timeout |-> 30000, maxBuffer |-> 5]
    [] name \in DiagTools /\ what # "kubectl get nodes -o json" ->
         [timeout |-> 120000, maxBuffer |-> 5]
    [] name = "monitor_deployments" -> [timeout |-> 0, maxBuffer |-> 10]
    [] OTHER -> [timeout |-> 0, maxBuffer |-> 0]

\* the transport takes the response; the handler is ready for the next request
Reply ==
  /\ pc = "responded"
  /\ pc' = "idle"
  /\ request' = NoRequest
  /\ response' = NoResponse
  /\ invoked' = ""
  /\ params' = NoArgs
  /\ effects' = <<>>
  /\ outcome' = "none"
  /\ rawError' = NoMessage
  /\ loop' = NoLoop

Next ==
  \/ Receive
  \/ DispatchReject
  \/ DispatchUnknown
  \/ DispatchInvoke
  \/ HandlerEntryFault
  \/ HandlerSucceeds
  \/ HandlerFails
  \/ HealthReport
  \/ HealthFails
  \/ DiagNodesFail
  \/ DiagNoNodes
  \/ DiagNodesListed
  \/ DiagNodeProbed
  \/ DiagNodeInaccessible
  \/ DiagReport
  \/ MetricsReport
  \/ JournalFails
  \/ JournalReport
  \/ DeployFails
  \/ DeployApplied
  \/ ManifestFails
  \/ ManifestApplied
  \/ HpaTargetNotFound
  \/ HpaFails
  \/ HpaApplied
  \/ BurnerStart
  \/ BurnerCleaned
  \/ BurnerNothingToClean
  \/ BurnerCleanupFails
  \/ BurnerCreateNamespace
  \/ BurnerApplyPod
  \/ BurnerApplyFails
  \/ BurnerCreated
  \/ BurnerAutoCleanup
  \/ Reply

Spec == Init /\ [][Next]_vars

(***************************************************************************)
(* The log classifier.  parseJournalctlLogs takes the lines that the       *)
(* journal query printed, one after the other: it leaves out the lines of  *)
(* the debug pod and makes an entry of every other line, with the category *)
(* it finds in the line and the severity getErrorSeverity gives to the     *)
(* category and the line.  Lines, categories and patterns are sequences of *)
(* characters.                                                             *)
(***************************************************************************)
MaxLines == 2

\* String.prototype.toLowerCase
toLowerCase(s) == [i \in 1..Len(s) |-> Lower(s[i])]

\* String.prototype.includes
includes(s, p) ==
  \E i \in 0..(Len(s) - Len(p)) : \A j \in 1..Len(p) : s[i + j] = p[j]

\* the texts that the classifier looks for, and the categories it gives
TxtOutOfDisk ==
  <<"O", "u", "t", "O", "f", "D", "i", "s", "k">>
TxtMemoryPressure ==
  <<"M", "e", "m", "o", "r", "y", "P", "r", "e", "s", "s", "u", "r", "e">>
TxtDiskPressure ==
  <<"D", "i", "s", "k", "P", "r", "e", "s", "s", "u", "r", "e">>
TxtResourcePressure ==
  <<"r", "e", "s", "o", "u", "r", "c", "e", "_", "p", "r", "e", "s", "s", "u", "r",
    "e">>
TxtFailedToStart ==
  <<"f", "a", "i", "l", "e", "d", " ", "t", "o", " ", "s", "t", "a", "r", "t">>
TxtPanic ==
  <<"p", "a", "n", "i", "c">>
TxtFatal ==
  <<"f", "a", "t", "a", "l">>
TxtOom ==
  <<"o", "o", "m">>
TxtKilled ==
  <<"k", "i", "l", "l", "e", "d">>
TxtContainerCleanup ==
  <<"c", "o", "n", "t", "a", "i", "n", "e", "r", "_", "c", "l", "e", "a", "n", "u",
    "p">>
TxtContainerDeletion ==
  <<"c", "o", "n", "t", "a", "i", "n", "e", "r", "_", "d", "e", "l", "e", "t", "i",
    "o", "n">>
TxtCadvisorWatch ==
  <<"c", "a", "d", "v", "i", "s", "o", "r", "_", "w", "a", "t", "c", "h">>
TxtContainerNotFound ==
  <<"c", "o", "n", "t", "a", "i", "n", "e", "r", "_", "n", "o", "t", "_", "f", "o",
    "u", "n", "d">>
TxtDeleteContainer ==
  <<"D", "e", "l", "e", "t", "e", "C", "o", "n", "t", "a", "i", "n", "e", "r">>
TxtContainerStatus ==
  <<"C", "o", "n", "t", "a", "i", "n", "e", "r", "S", "t", "a", "t", "u", "s">>
TxtGeneral ==
  <<"g", "e", "n", "e", "r", "a", "l">>
TxtContainerStatusFailed ==
  <<"C", "o", "n", "t", "a", "i", "n", "e", "r", "S", "t", "a", "t", "u", "s", " ",
    "f", "r", "o", "m", " ", "r", "u", "n", "t", "i", "m", "e", " ", "s", "e", "r",
    "v", "i", "c", "e", " ", "f", "a", "i", "l", "e", "d">>
TxtDeleteContainerError ==
  <<"D", "e", "l", "e", "t", "e", "C", "o", "n", "t", "a", "i", "n", "e", "r", " ",
    "r", "e", "t", "u", "r", "n", "e", "d", " ", "e", "r", "r", "o", "r">>
TxtWatchEventFailed ==
  <<"F", "a", "i", "l", "e", "d", " ", "t", "o", " ", "p", "r", "o", "c", "e", "s",
    "s", " ", "w", "a", "t", "c", "h", " ", "e", "v", "e", "n", "t">>
TxtContainerWithId ==
  <<"c", "o", "n", "t", "a", "i", "n", "e", "r", " ", "w", "i", "t", "h", " ", "I",
    "D">>
TxtNotFound ==
  <<"n", "o", "t", " ", "f", "o", "u", "n", "d">>
TxtStartingPod ==
  <<"S", "t", "a", "r", "t", "i", "n", "g", " ", "p", "o", "d", "/">>
TxtRemovingDebugPod ==
  <<"R", "e", "m", "o", "v", "i", "n", "g", " ", "d", "e", "b", "u", "g", " ", "p",
    "o", "d">>

criticalPatterns ==
  <<TxtOutOfDisk, TxtMemoryPressure, TxtDiskPressure, TxtResourcePressure,
    TxtFailedToStart, TxtPanic, TxtFatal, TxtOom, TxtKilled>>

warningPatterns ==
  <<TxtContainerCleanup, TxtContainerDeletion, TxtCadvisorWatch,
    TxtContainerNotFound, TxtDeleteContainer, TxtContainerStatus>>

\* category.includes(pattern) || message.toLowerCase().includes(pattern.toLowerCase()),
\* given the message in lower case
PatternHit(pattern, category, lowered) ==
  \/ includes(category, pattern)
  \/ includes(lowered, toLowerCase(pattern))

\* the two loops of getErrorSeverity on a category and a lower-cased
\* message, in the other order
SeverityWarningFirst(category, lowered) ==
  IF \E i \in 1..Len(warningPatterns) : PatternHit(warningPatterns[i], category, lowered)
  THEN "warning"
  ELSE IF \E i \in 1..Len(criticalPatterns) :
            PatternHit(criticalPatterns[i], category, lowered)
       THEN "critical"
       ELSE "info"

\* the two loops of getErrorSeverity on a category and a lower-cased
\* message: the first returns 'critical' at the first critical pattern that
\* hits, the second 'warning' at the first warning pattern
SeverityLoops(category, lowered) ==
  IF \E i \in 1..Len(criticalPatterns) : PatternHit(criticalPatterns[i], category, lowered)
  THEN "critical"
  ELSE IF \E i \in 1..Len(warningPatterns) :
            PatternHit(warningPatterns[i], category, lowered)
       THEN "warning"
       ELSE "info"

getErrorSeverity(category, message) == SeverityLoops(category, toLowerCase(message))

\* the category of a line: the if / else-if chain of parseJournalctlLogs
CategoryOf(line) ==
  IF includes(line, TxtContainerStatusFailed) THEN TxtContainerCleanup
  ELSE IF includes(line, TxtDeleteContainerError) THEN TxtContainerDeletion
  ELSE IF includes(line, TxtWatchEventFailed) THEN TxtCadvisorWatch
  ELSE IF includes(line, TxtContainerWithId) /\ includes(line, TxtNotFound)
       THEN TxtContainerNotFound
  ELSE IF \/ includes(line, TxtOutOfDisk)
          \/ includes(line, TxtMemoryPressure)
          \/ includes(line, TxtDiskPressure)
       THEN TxtResourcePressure
  ELSE TxtGeneral

\* the lines of the debug pod, which the loop skips
IsDebugPodLine(line) == includes(line, TxtStartingPod) \/ includes(line, TxtRemovingDebugPod)

\* the lower-case letters and the digits
LowerAlnum ==
  {"a", "b", "c", "d", "e", "f", "g", "h", "i", "j", "k", "l", "m", "n", "o", "p", "q", "r",
   "s", "t", "u", "v", "w", "x", "y", "z", "0", "1", "2", "3", "4", "5", "6", "7", "8", "9"}

\* \w, \d and \s of the timestamp pattern
IsWordChar(c) == Lower(c) \in LowerAlnum \cup {"_"}
IsDigit(c) == c \in {"0", "1", "2", "3", "4", "5", "6", "7", "8", "9"}
IsSpace(c) == c \in {" ", "\t"}
DigitValue(c) == CHOOSE d \in 0..9 : <<"0", "1", "2", "3", "4", "5", "6", "7", "8", "9">>[d + 1] = c

TxtUnknown ==
  <<"u", "n", "k", "n", "o", "w", "n">>

\* the length of the match of /^(\w{3}\s+\d{1,2}\s+\d{2}:\d{2}:\d{2})/ at the
\* head of a line (runs of one or two blanks), 0 when the line has no match
TimestampLength(line) ==
  LET shapes ==
        {<<a, d, b>> \in (1..2) \X (1..2) \X (1..2) :
           LET day == 3 + a
               clock == 3 + a + d + b
           IN  /\ Len(line) >= clock + 8
               /\ \A i \in 1..3 : IsWordChar(line[i])
               /\ \A i \in 4..(day) : IsSpace(line[i])
               /\ \A i \in (day + 1)..(day + d) : IsDigit(line[i])
               /\ \A i \in (day + d + 1)..clock : IsSpace(line[i])
               /\ \A i \in {1, 2, 4, 5, 7, 8} : IsDigit(line[clock + i])
               /\ \A i \in {3, 6} : line[clock + i] = ":"}
  IN  IF shapes = {} THEN 0
      ELSE LET m == CHOOSE m \in shapes : TRUE IN 3 + m[1] + m[2] + m[3] + 8

\* timestampMatch ? timestampMatch[1] : 'unknown'
TimestampOf(line) ==
  IF TimestampLength(line) = 0 THEN TxtUnknown ELSE SubSeq(line, 1, TimestampLength(line))

\* the first of the error types 'error', 'fail', 'warn' (the default of the
\* handler) that the lower-cased line includes
ErrorTypeOf(line) ==
  LET errorTypes == <<<<"e", "r", "r", "o", "r">>, <<"f", "a", "i", "l">>, <<"w", "a", "r", "n">>>>
      hits == {i \in 1..Len(errorTypes) : includes(toLowerCase(line), toLowerCase(errorTypes[i]))}
  IN  IF hits = {} THEN TxtUnknown
      ELSE errorTypes[CHOOSE i \in hits : \A j \in hits : i <= j]

TxtKubelet ==
  <<"k", "u", "b", "e", "l", "e", "t">>
TxtCrio ==
  <<"c", "r", "i", "o">>
TxtSystemd ==
  <<"s", "y", "s", "t", "e", "m", "d">>

\* serviceName: 'unknown' (no service was asked for), then the last of
\* kubelet, crio and systemd that the line includes
ServiceOf(line) ==
  IF includes(line, TxtSystemd) THEN TxtSystemd
  ELSE IF includes(line, TxtCrio) THEN TxtCrio
  ELSE IF includes(line, TxtKubelet) THEN TxtKubelet
  ELSE TxtUnknown

\* String.prototype.indexOf: the first position, counted from 0, or -1
indexOf(s, p) ==
  LET at == {i \in 0..(Len(s) - Len(p)) : \A j \in 1..Len(p) : s[i + j] = p[j]}
  IN  IF at = {} THEN -1 ELSE CHOOSE i \in at : \A k \in at : i <= k

\* String.prototype.trim
trim(s) ==
  LET inked == {i \in 1..Len(s) : ~IsSpace(s[i]) /\ s[i] # "\n"}
  IN  IF inked = {} THEN <<>>
      ELSE SubSeq(s, CHOOSE i \in inked : \A k \in inked : i <= k,
                     CHOOSE i \in inked : \A k \in inked : i >= k)

\* line.substring(line.indexOf(serviceName) + serviceName.length).trim() || line
MessageOf(line) ==
  LET serviceName == ServiceOf(line)
      from == indexOf(line, serviceName) + Len(serviceName)
      rest == trim(SubSeq(line, from + 1, Len(line)))
  IN  IF rest = <<>> THEN line ELSE rest

\* the entry of a line; `line` keeps the line the entry was made of.  No pod
\* was asked for and the lines of this model name none: pod is null.
ErrorEntry(line) ==
  [line      |-> line,
   timestamp |-> TimestampOf(line),
   errorType |-> ErrorTypeOf(line),
   service   |-> ServiceOf(line),
   pod       |-> "null",
   category  |-> CategoryOf(line),
   message   |-> MessageOf(line),
   severity  |-> getErrorSeverity(CategoryOf(line), line)]

\* errorCounts[`${category}_${errorType}`] after one more entry; the keys
\* stay in the order in which they were first counted
Counted(errorCounts, entry) ==
  LET at == {i \in 1..Len(errorCounts) :
               /\ errorCounts[i].category = entry.category
               /\ errorCounts[i].errorType = entry.errorType}
  IN  IF at = {}
      THEN Append(errorCounts, [category |-> entry.category,
                                errorType |-> entry.errorType, n |-> 1])
      ELSE [i \in 1..Len(errorCounts) |->
              IF i \in at THEN [errorCounts[i] EXCEPT !.n = @ + 1] ELSE errorCounts[i]]

\* what the journal of a node can print: a message of the kubelet or of
\* CRI-O, alone or followed by a second message
LineMemoryPressure ==
  <<"k", "u", "b", "e", "l", "e", "t", ":", " ", "M", "e", "m", "o", "r", "y", "P",
    "r", "e", "s", "s", "u", "r", "e", " ", "o", "n", " ", "n", "o", "d", "e">>
LineDeleteFailed ==
  <<"c", "r", "i", "o", ":", " ", "D", "e", "l", "e", "t", "e", "C", "o", "n", "t",
    "a", "i", "n", "e", "r", " ", "r", "e", "t", "u", "r", "n", "e", "d", " ", "e",
    "r", "r", "o", "r">>
LineWatchFailed ==
  <<"k", "u", "b", "e", "l", "e", "t", ":", " ", "F", "a", "i", "l", "e", "d", " ",
    "t", "o", " ", "p", "r", "o", "c", "e", "s", "s", " ", "w", "a", "t", "c", "h",
    " ", "e", "v", "e", "n", "t">>
LineStatusFailed ==
  <<"k", "u", "b", "e", "l", "e", "t", ":", " ", "C", "o", "n", "t", "a", "i", "n",
    "e", "r", "S", "t", "a", "t", "u", "s", " ", "f", "r", "o", "m", " ", "r", "u",
    "n", "t", "i", "m", "e", " ", "s", "e", "r", "v", "i", "c", "e", " ", "f", "a",
    "i", "l", "e", "d">>
LineStarted ==
  <<"k", "u", "b", "e", "l", "e", "t", ":", " ", "S", "t", "a", "r", "t", "e", "d",
    " ", "c", "o", "n", "t", "a", "i", "n", "e", "r", " ", "w", "e", "b">>
LineRetry ==
  <<"c", "r", "i", "o", ":", " ", "d", "e", "l", "e", "t", "e", "c", "o", "n", "t",
    "a", "i", "n", "e", "r", " ", "r", "e", "t", "r", "y">>
LineOomKilled ==
  <<"k", "u", "b", "e", "l", "e", "t", ":", " ", "O", "O", "M", "K", "i", "l", "l",
    "e", "d", " ", "w", "e", "b">>
LineDebugPod ==
  <<"R", "e", "m", "o", "v", "i", "n", "g", " ", "d", "e", "b", "u", "g", " ", "p",
    "o", "d">>
TailPanic ==
  <<":", " ", "P", "A", "N", "I", "C">>

LineBodies ==
  {LineMemoryPressure, LineDeleteFailed, LineWatchFailed, LineStatusFailed, LineStarted,
   LineRetry, LineOomKilled, LineDebugPod}

StampOct31 ==
  <<"O", "c", "t", " ", "3", "1", " ", "2", "3", ":", "5", "9", ":", "5", "8", " ">>
StampNov01 ==
  <<"N", "o", "v", " ", "0", "1", " ", "0", "0", ":", "0", "0", ":", "0", "3", " ">>

\* lines that start with the time at which they were written
StampedLines ==
  {stamp \o body : stamp \in {StampOct31, StampNov01},
                   body \in {LineMemoryPressure, LineStarted}}

JournalLines ==
  LineBodies \cup {body \o TailPanic : body \in {LineDeleteFailed, LineWatchFailed, LineStarted}}
             \cup StampedLines

\* errors.slice(0, 20)
ErrorsReturned == 20

\* lines said again and again, until there are more of them than are returned
Repeated(lines) ==
  [i \in 1..(Len(lines) * ((ErrorsReturned \div Len(lines)) + 1)) |->
     lines[((i - 1) % Len(lines)) + 1]]

\* the output of the journal query, split into its lines that are not
\* blank: a few lines of any kind, or two lines with their times said many
\* times
JournalOutputs ==
  UNION {[1..n -> JournalLines] : n \in 0..MaxLines}
    \cup {Repeated(lines) : lines \in [1..2 -> StampedLines]}

\* parseJournalctlLogs starts on an output; no request is being handled
ClassifierInit ==
  /\ pc = "parsing"
  /\ request = NoRequest
  /\ response = NoResponse
  /\ invoked = ""
  /\ params = NoArgs
  /\ effects = <<>>
  /\ outcome = "none"
  /\ rawError = NoMessage
  /\ \E lines \in JournalOutputs : 
       loop = [lines |-> lines, i |-> 1, errors |-> <<>>, errorCounts |-> <<>>,
               report |-> <<>>]

\* the loop body on a line of the debug pod: `continue`
ParseSkipsLine ==
  /\ pc = "parsing"
  /\ loop.i <= Len(loop.lines)
  /\ IsDebugPodLine(loop.lines[loop.i])
  /\ loop' = [loop EXCEPT !.i = @ + 1]
  /\ UNCHANGED <<pc, request, response, invoked, params, effects, outcome, rawError>>

\* the loop body on any other line: its entry is pushed
ParseLine ==
  /\ pc = "parsing"
  /\ loop.i <= Len(loop.lines)
  /\ ~IsDebugPodLine(loop.lines[loop.i])
  /\ LET entry == ErrorEntry(loop.lines[loop.i])
     IN  loop' = [loop EXCEPT !.i = @ + 1,
                              !.errors = Append(@, entry),
                              !.errorCounts = Counted(@, entry)]
  /\ UNCHANGED <<pc, request, response, invoked, params, effects, outcome, rawError>>

\* severityOrder
severityOrder(severity) ==
  CASE severity = "critical" -> 3
    [] severity = "warning"  -> 2
    [] severity = "info"     -> 1

\* the order in which localeCompare ranks the characters of a timestamp:
\* blank, punctuation, digits, then letters whatever their case
CollationOrder ==
  <<" ", ":", "0", "1", "2", "3", "4", "5", "6", "7", "8", "9", "a", "b", "c", "d", "e",
    "f", "g", "h", "i", "j", "k", "l", "m", "n", "o", "p", "q", "r", "s", "t", "u", "v",
    "w", "x", "y", "z">>

CollationRanks ==
  [c \in {"A", "B", "C", "D", "E", "F", "G", "H", "I", "J", "K", "L", "M", "N", "O", "P", "Q",
          "R", "S", "T", "U", "V", "W", "X", "Y", "Z"}
          \cup {CollationOrder[i] : i \in 1..Len(CollationOrder)} |->
     CHOOSE i \in 1..Len(CollationOrder) : CollationOrder[i] = Lower(c)]

CollationRank(c) == CollationRanks[c]

\* a.localeCompare(b): negative, zero or positive
localeCompare(a, b) ==
  LET shorter == IF Len(a) < Len(b) THEN Len(a) ELSE Len(b)
      differ == {i \in 1..shorter : CollationRank(a[i]) # CollationRank(b[i])}
  IN  IF differ = {} THEN Len(a) - Len(b)
      ELSE LET i == CHOOSE i \in differ : \A k \in differ : i <= k
           IN  CollationRank(a[i]) - CollationRank(b[i])

\* the comparator of errors.sort
CompareErrors(a, b) ==
  IF a.severity # b.severity
  THEN severityOrder(b.severity) - severityOrder(a.severity)
  ELSE localeCompare(b.timestamp, a.timestamp)

\* Array.prototype.sort with CompareErrors, which is stable: an entry comes
\* behind the entries that the comparator puts before it and behind the
\* earlier entries that the comparator holds equal to it
SortErrors(errors) ==
  LET place == [i \in 1..Len(errors) |->
                  1 + Cardinality({j \in 1..Len(errors) :
                                     \/ CompareErrors(errors[j], errors[i]) < 0
                                     \/ /\ CompareErrors(errors[j], errors[i]) = 0
                                        /\ j < i})]
  IN  [k \in 1..Len(errors) |-> errors[CHOOSE i \in 1..Len(errors) : place[i] = k]]

\* generateErrorSummary: the numbers and the key it names, the first of the
\* keys of errorCounts with the highest count
generateErrorSummary(errors, errorCounts) ==
  IF errors = <<>> THEN [found |-> 0]
  ELSE [found    |-> Len(errors),
        critical |-> Cardinality({i \in 1..Len(errors) : errors[i].severity = "critical"}),
        warnings |-> Cardinality({i \in 1..Len(errors) : errors[i].severity = "warning"}),
        info     |-> Cardinality({i \in 1..Len(errors) : errors[i].severity = "info"}),
        mostCommon |->
          LET top == CHOOSE i \in 1..Len(errorCounts) :
                       /\ \A k \in 1..Len(errorCounts) : errorCounts[k].n <= errorCounts[i].n
                       /\ \A k \in 1..(i - 1) : errorCounts[k].n < errorCounts[i].n
          IN  [category |-> errorCounts[top].category,
               errorType |-> errorCounts[top].errorType]]

TxtStartup ==
  <<"s", "t", "a", "r", "t", "u", "p">>
TxtNetwork ==
  <<"n", "e", "t", "w", "o", "r", "k">>
TxtDns ==
  <<"d", "n", "s">>
TxtDisk ==
  <<"d", "i", "s", "k">>
TxtVolume ==
  <<"v", "o", "l", "u", "m", "e">>

\* the counter of analyzeErrorPatterns that an entry adds to, if any
PatternOf(error) ==
  IF error.category \in {TxtContainerCleanup, TxtContainerDeletion}
  THEN "containerCleanupRaceConditions"
  ELSE IF error.category = TxtResourcePressure THEN "resourcePressureIssues"
  ELSE IF includes(error.message, TxtFailedToStart) \/ includes(error.message, TxtStartup)
       THEN "podStartupFailures"
  ELSE IF includes(error.message, TxtNetwork) \/ includes(error.message, TxtDns)
       THEN "networkIssues"
  ELSE IF includes(error.message, TxtDisk) \/ includes(error.message, TxtVolume)
       THEN "storageIssues"
  ELSE "none"

PatternNames ==
  <<"containerCleanupRaceConditions", "resourcePressureIssues", "podStartupFailures",
    "networkIssues", "storageIssues">>

\* analyzeErrorPatterns with generateRecommendations: the counters, and the
\* counters that bring a recommendation ("none": the one for no issue)
analyzeErrorPatterns(errors) ==
  LET patterns ==
        [name \in {PatternNames[i] : i \in 1..Len(PatternNames)} |->
           Cardinality({i \in 1..Len(errors) : PatternOf(errors[i]) = name})]
      over(name) == CASE name = "containerCleanupRaceConditions" -> 10
                      [] name = "podStartupFailures" -> 5
                      [] OTHER -> 0
      advised == SelectSeq(PatternNames, LAMBDA name : patterns[name] > over(name))
  IN  [patterns |-> patterns,
       recommendations |-> IF advised = <<>> THEN <<"none">> ELSE advised]

\* the output has no line: the report that says so
ParseNothing ==
  /\ pc = "parsing"
  /\ loop.lines = <<>>
  /\ pc' = "parsed"
  /\ loop' = [loop EXCEPT !.report = [summary |-> [found |-> 0], totalErrors |-> 0,
                                       errors |-> <<>>]]
  /\ UNCHANGED <<request, response, invoked, params, effects, outcome, rawError>>

\* the loop is over: the entries are sorted, and the report holds the first
\* of them with the numbers of all of them
ParseDone ==
  /\ pc = "parsing"
  /\ loop.lines # <<>>
  /\ loop.i > Len(loop.lines)
  /\ pc' = "parsed"
  /\ LET errors == SortErrors(loop.errors)
     IN  loop' = [loop EXCEPT
                    !.errors = errors,
                    !.report = [summary |-> generateErrorSummary(errors, loop.errorCounts),
                                totalErrors |-> Len(errors),
                                errorCounts |-> loop.errorCounts,
                                errors |-> SubSeq(errors, 1,
                                                  IF Len(errors) < ErrorsReturned
                                                  THEN Len(errors) ELSE ErrorsReturned),
                                analysis |-> analyzeErrorPatterns(errors)]]
  /\ UNCHANGED <<request, response, invoked, params, effects, outcome, rawError>>

ClassifierNext ==
  \/ ParseNothing
  \/ ParseSkipsLine
  \/ ParseLine
  \/ ParseDone

ClassifierSpec == ClassifierInit /\ [][ClassifierNext]_vars

(***************************************************************************)
(* sanitizeErrorMessage on its own: it is applied to a text, and to its    *)
(* own result.  A text is made of at most MaxPieces pieces: the keywords   *)
(* in one case or another, parts of them, values and separators.           *)
(***************************************************************************)
MaxPieces == 3

TextPieces ==
  {<<"t", "o", "k", "e", "n">>, <<"T", "o", "K", "e", "n">>,
   <<"p", "a", "s", "s", "w", "o", "r", "d">>, <<"S", "E", "C", "R", "E", "T">>,
   <<"=">>, <<"x", "1">>, <<",">>, <<" ">>, <<"t", "o">>, <<"k", "e", "n">>}

RECURSIVE Joined(_)
Joined(pieces) == IF pieces = <<>> THEN <<>> ELSE Head(pieces) \o Joined(Tail(pieces))

Texts == {Joined(pieces) : pieces \in UNION {[1..n -> TextPieces] : n \in 0..MaxPieces}}

SanitizerInit ==
  /\ pc = "sanitizing"
  /\ request = NoRequest
  /\ response = NoResponse
  /\ invoked = ""
  /\ params = NoArgs
  /\ effects = <<>>
  /\ outcome = "none"
  /\ rawError = NoMessage
  /\ \E text \in Texts : loop = [message |-> text, passes |-> 0, text |-> text, before |-> text]

\* sanitizeErrorMessage is applied to the text
SanitizePass ==
  /\ pc = "sanitizing"
  /\ loop.passes < 2
  /\ loop' = [loop EXCEPT !.passes = @ + 1, !.before = loop.text,
                          !.text = SanitizeChars(loop.text)]
  /\ UNCHANGED <<pc, request, response, invoked, params, effects, outcome, rawError>>

SanitizerNext == SanitizePass

SanitizerSpec == SanitizerInit /\ [][SanitizerNext]_vars

(***************************************************************************)
(* parseResourceValue and parseDuration on their own.  A text is a number  *)
(* text of at most MaxDigits characters, digits and points, followed by a  *)
(* suffix.  A number is kept as num / den * base ^ exp: the products of    *)
(* the memory units are beyond the integers of the checker.                *)
(***************************************************************************)
MaxDigits == 3

NumberTexts == UNION {[1..n -> {"0", "1", "5", "."}] : n \in 0..MaxDigits}

Suffixes ==
  {<<>>, <<"m">>, <<"s">>, <<"h">>, <<"m", "s">>, <<"K", "i">>, <<"M", "i">>, <<"G", "i">>, <<"T", "i">>,
   <<"K">>, <<"M">>, <<"G">>, <<"T">>}

\* what the parsers are called with: a string or, for parseResourceValue,
\* a value that is no string
ParserInputs ==
  {[t |-> "string", chars |-> number \o suffix] : number \in NumberTexts, suffix \in Suffixes}

RECURSIVE DigitRun(_)
\* the digits at the head of a text
DigitRun(s) ==
  IF s = <<>> \/ ~IsDigit(Head(s)) THEN <<>> ELSE <<Head(s)>> \o DigitRun(Tail(s))

RECURSIVE DigitsValue(_)
\* the number that a run of digits writes
DigitsValue(digits) ==
  IF digits = <<>> THEN 0
  ELSE DigitsValue(SubSeq(digits, 1, Len(digits) - 1)) * 10 + DigitValue(digits[Len(digits)])

RECURSIVE TenTo(_)
TenTo(n) == IF n = 0 THEN 1 ELSE 10 * TenTo(n - 1)

\* the digits behind the point that follows the digits at the head of a text
FractionOf(s) ==
  LET rest == SubSeq(s, Len(DigitRun(s)) + 1, Len(s))
  IN  IF rest # <<>> /\ Head(rest) = "." THEN DigitRun(Tail(rest)) ELSE <<>>

\* parseFloat on a text without blank, sign or exponent: the longest head
\* that writes a number, NaN when there is none
parseFloat(s) ==
  IF DigitRun(s) = <<>> /\ FractionOf(s) = <<>>
  THEN [nan |-> TRUE, num |-> 0, den |-> 1]
  ELSE [nan |-> FALSE,
        num |-> DigitsValue(DigitRun(s) \o FractionOf(s)),
        den |-> TenTo(Len(FractionOf(s)))]

\* String.prototype.endsWith
endsWith(s, p) == Len(s) >= Len(p) /\ SubSeq(s, Len(s) - Len(p) + 1, Len(s)) = p

\* value.match(/^\d+(\.\d+)?/), the pattern without its end
IsPlainDecimalAtHead(s) == DigitRun(s) # <<>>

\* value.match(/^\d+(\.\d+)?$/)
IsPlainDecimal(s) ==
  /\ DigitRun(s) # <<>>
  /\ \/ Len(s) = Len(DigitRun(s))
     \/ /\ FractionOf(s) # <<>>
        /\ Len(s) = Len(DigitRun(s)) + 1 + Len(FractionOf(s))

\* memoryUnits, in the order of its keys
memoryUnits ==
  <<[unit |-> <<"K", "i">>, base |-> 1024, exp |-> 1],
    [unit |-> <<"M", "i">>, base |-> 1024, exp |-> 2],
    [unit |-> <<"G", "i">>, base |-> 1024, exp |-> 3],
    [unit |-> <<"T", "i">>, base |-> 1024, exp |-> 4],
    [unit |-> <<"K">>, base |-> 1000, exp |-> 1],
    [unit |-> <<"M">>, base |-> 1000, exp |-> 2],
    [unit |-> <<"G">>, base |-> 1000, exp |-> 3],
    [unit |-> <<"T">>, base |-> 1000, exp |-> 4]>>

Quantity(num, den, base, exp) == [num |-> num, den |-> den, base |-> base, exp |-> exp]

parseResourceValue(value) ==
  IF value.t # "string" \/ value.chars = <<>> THEN Quantity(0, 1, 1, 0)
  ELSE LET numValue == parseFloat(value.chars)
           units == {i \in 1..Len(memoryUnits) : endsWith(value.chars, memoryUnits[i].unit)}
       IN  IF numValue.nan THEN Quantity(0, 1, 1, 0)
           ELSE IF endsWith(value.chars, <<"m">>)
                THEN Quantity(numValue.num, numValue.den * 1000, 1, 0)
           ELSE IF IsPlainDecimal(value.chars) \/ units = {}
                THEN Quantity(numValue.num, numValue.den, 1, 0)
           ELSE LET first == CHOOSE i \in units : \A k \in units : i <= k
                IN  Quantity(numValue.num, numValue.den,
                             memoryUnits[first].base, memoryUnits[first].exp)

\* parseDuration without the end of its pattern: /^(\d+)([sm])/
parseDurationOfHead(duration) ==
  LET digits == DigitRun(duration)
  IN  IF digits = <<>> \/ Len(duration) < Len(digits) + 1
         \/ duration[Len(digits) + 1] \notin {"s", "m"}
      THEN 120
      ELSE IF duration[Len(digits) + 1] = "m"
           THEN DigitsValue(digits) * 60 ELSE DigitsValue(digits)

\* parseDuration: /^(\d+)([sm])$/, parseInt of the digits, minutes in seconds
parseDuration(duration) ==
  LET digits == DigitRun(duration)
  IN  IF digits = <<>> \/ Len(duration) # Len(digits) + 1
         \/ duration[Len(duration)] \notin {"s", "m"}
      THEN 120
      ELSE IF duration[Len(duration)] = "m"
           THEN DigitsValue(digits) * 60 ELSE DigitsValue(digits)

\* one of the two parsers is about to be called with a value
ParsersInit ==
  /\ pc = "parsing value"
  /\ request = NoRequest
  /\ response = NoResponse
  /\ invoked = ""
  /\ params = NoArgs
  /\ effects = <<>>
  /\ outcome = "none"
  /\ rawError = NoMessage
  /\ \/ \E value \in ParserInputs \cup {[t |-> "undefined"], [t |-> "number"]} :
          loop = [parser |-> "parseResourceValue", value |-> value, returned |-> <<>>]
     \/ \E value \in ParserInputs :
          loop = [parser |-> "parseDuration", value |-> value, returned |-> <<>>]

ResourceValueParsed ==
  /\ pc = "parsing value"
  /\ loop.parser = "parseResourceValue"
  /\ pc' = "parsed value"
  /\ loop' = [loop EXCEPT !.returned = parseResourceValue(loop.value)]
  /\ UNCHANGED <<request, response, invoked, params, effects, outcome, rawError>>

DurationParsed ==
  /\ pc = "parsing value"
  /\ loop.parser = "parseDuration"
  /\ pc' = "parsed value"
  /\ loop' = [loop EXCEPT !.returned = parseDuration(loop.value.chars)]
  /\ UNCHANGED <<request, response, invoked, params, effects, outcome, rawError>>

ParsersNext ==
  \/ ResourceValueParsed
  \/ DurationParsed

ParsersSpec == ParsersInit /\ [][ParsersNext]_vars

(***************************************************************************)
(* The remote launcher, src/scripts/remote-launcher.js: it reads its       *)
(* settings from the command line and the environment, validates them,     *)
(* spawns ssh and serves the events of the child and the signals it is     *)
(* sent.  The environment holds at most MaxEnvVars of the MCP_* variables, *)
(* the command line at most MaxArgv arguments, and at most MaxSignals      *)
(* signals arrive.                                                         *)
(***************************************************************************)
MaxEnvVars == 1
MaxArgv == 2
MaxSignals == 1

LauncherSettings ==
  {"bastionHost", "bastionUser", "bastionPassword", "remotePath", "sshKey",
   "remoteKubeconfig", "remoteNodeEnv"}

\* the value a setting has when the variable of the environment is falsy
LauncherDefaults ==
  [bastionHost |-> "bastion.example.com", bastionUser |-> "admin",
   bastionPassword |-> "", remotePath |-> "/opt/openshift-mcp-server",
   sshKey |-> "~/.ssh/id_rsa", remoteKubeconfig |-> "~/.kube/config",
   remoteNodeEnv |-> "production"]

\* the cases of the switch that take the next argument
SettingOfFlag ==
  [flag \in {"-H", "--host", "-U", "--user", "-P", "--password", "-p", "--path",
             "-s", "--ssh-key", "-k", "--kubeconfig", "-e", "--env"} |->
     CASE flag \in {"-H", "--host"} -> "bastionHost"
       [] flag \in {"-U", "--user"} -> "bastionUser"
       [] flag \in {"-P", "--password"} -> "bastionPassword"
       [] flag \in {"-p", "--path"} -> "remotePath"
       [] flag \in {"-s", "--ssh-key"} -> "sshKey"
       [] flag \in {"-k", "--kubeconfig"} -> "remoteKubeconfig"
       [] OTHER -> "remoteNodeEnv"]

HelpFlags == {"-h", "--help"}

\* the arguments of the command lines: the short flags, one long flag, help
\* and a word that is no flag
ArgTokens == {"-H", "-U", "-P", "-p", "-s", "-k", "-e", "--host", "-h", "v"}

CommandLines == UNION {[1..n -> ArgTokens] : n \in 0..MaxArgv}

\* process.env restricted to the seven MCP_* variables, named by their setting
Environments ==
  {env \in [LauncherSettings -> {Undefined, Str(""), Str("env")}] :
     Cardinality({s \in LauncherSettings : env[s] # Undefined}) <= MaxEnvVars}

\* args[i], undefined behind the end
ArgAt(args, i) == IF i <= Len(args) THEN Str(args[i]) ELSE Undefined

\* the config object with every variable of the environment that is defined
FromDefinedEnvironment(env) ==
  [s \in LauncherSettings |->
     IF env[s] # Undefined THEN env[s] ELSE Str(LauncherDefaults[s])]

\* the config object before the arguments are read: process.env.X || default
FromEnvironment(env) ==
  [s \in LauncherSettings |->
     IF Truthy(env[s]) THEN env[s] ELSE Str(LauncherDefaults[s])]

RECURSIVE ParseFrom(_, _, _)
\* the loop over the arguments from index i on; help ends the process
ParseFrom(config, args, i) ==
  IF i > Len(args) THEN [config |-> config, help |-> FALSE]
  ELSE IF args[i] \in DOMAIN SettingOfFlag
       THEN ParseFrom([config EXCEPT ![SettingOfFlag[args[i]]] = ArgAt(args, i + 1)],
                      args, i + 2)
  ELSE IF args[i] \in HelpFlags THEN [config |-> config, help |-> TRUE]
  ELSE ParseFrom(config, args, i + 1)

parseArguments(env, args) == ParseFrom(FromEnvironment(env), args, 1)

\* validateConfig accepts everything
validateNothing(config, keyExists) == "passed"

\* validateConfig: "exit" when a required setting is missing or the key file
\* of key authentication is absent, "throws" when the key is no string
validateConfig(config, keyExists) ==
  IF \E key \in {"bastionHost", "bastionUser", "remotePath", "remoteKubeconfig"} :
       ~Truthy(config[key]) \/ config[key] = Str("bastion.example.com")
  THEN "exit"
  ELSE IF Truthy(config.bastionPassword) THEN "passed"
  ELSE IF TypeOf(config.sshKey) # "string" THEN "throws"
  ELSE IF ~keyExists THEN "exit"
  ELSE "passed"

\* process.exit(code || 0): every code is kept
ExitWithCode(code) == code

\* process.exit(code || 0) of the close handler; code is null for a child
\* that a signal ended
ExitOnClose(code) == IF code.t = "number" /\ code.n # 0 THEN code ELSE Num(0)

\* the code of a child that a signal ended: null
NoCode == [t |-> "null", s |-> "", n |-> 0]

ChildCodes == {NoCode, Num(0), Num(1), Num(255)}

NoConfig == [s \in {} |-> Undefined]

LauncherInit ==
  /\ pc = "launching"
  /\ request = NoRequest
  /\ response = NoResponse
  /\ invoked = ""
  /\ params = NoArgs
  /\ effects = <<>>
  /\ outcome = "none"
  /\ rawError = NoMessage
  /\ \E env \in Environments, args \in CommandLines :
       loop = [env |-> env, args |-> args, config |-> NoConfig, keyExists |-> FALSE,
               child |-> "none", received |-> <<>>, killed |-> <<>>,
               closed |-> Undefined, exit |-> Undefined]

Launching == pc = "launching"

\* parseArguments meets a help flag: printHelp and process.exit(0)
LauncherHelp ==
  /\ Launching
  /\ parseArguments(loop.env, loop.args).help
  /\ pc' = "exited"
  /\ loop' = [loop EXCEPT !.exit = Num(0)]
  /\ UNCHANGED <<request, response, invoked, params, effects, outcome, rawError>>

\* launchMCPServer up to a failing validateConfig: process.exit(1), from
\* validateConfig or from the catch
LauncherRejects ==
  /\ Launching
  /\ ~parseArguments(loop.env, loop.args).help
  /\ \E keyExists \in BOOLEAN :
       LET config == parseArguments(loop.env, loop.args).config
       IN  /\ validateConfig(config, keyExists) # "passed"
           /\ loop' = [loop EXCEPT !.config = config, !.keyExists = keyExists,
                                    !.exit = Num(1)]
  /\ pc' = "exited"
  /\ UNCHANGED <<request, response, invoked, params, effects, outcome, rawError>>

\* launchMCPServer with a passing validateConfig: spawn and the handlers of
\* close, error, SIGTERM and SIGINT
LauncherSpawns ==
  /\ Launching
  /\ ~parseArguments(loop.env, loop.args).help
  /\ \E keyExists \in BOOLEAN :
       LET config == parseArguments(loop.env, loop.args).config
       IN  /\ validateConfig(config, keyExists) = "passed"
           /\ loop' = [loop EXCEPT !.config = config, !.keyExists = keyExists,
                                    !.child = "spawned"]
  /\ pc' = "serving"
  /\ UNCHANGED <<request, response, invoked, params, effects, outcome, rawError>>

\* process.on('SIGTERM' | 'SIGINT'): ssh.kill with the same signal
SignalForwarded ==
  /\ pc = "serving"
  /\ Len(loop.received) < MaxSignals
  /\ \E signal \in {"SIGTERM", "SIGINT"} :
       loop' = [loop EXCEPT !.received = Append(@, signal),
                            !.killed = Append(@, signal)]
  /\ UNCHANGED <<pc, request, response, invoked, params, effects, outcome, rawError>>

\* ssh.on('close'): the launcher exits with the code of the child
ChildCloses ==
  /\ pc = "serving"
  /\ \E code \in ChildCodes :
       loop' = [loop EXCEPT !.child = "closed", !.closed = code,
                            !.exit = ExitOnClose(code)]
  /\ pc' = "exited"
  /\ UNCHANGED <<request, response, invoked, params, effects, outcome, rawError>>

\* ssh.on('error'): the child could not be started
ChildFailsToStart ==
  /\ pc = "serving"
  /\ loop' = [loop EXCEPT !.child = "failed", !.exit = Num(1)]
  /\ pc' = "exited"
  /\ UNCHANGED <<request, response, invoked, params, effects, outcome, rawError>>

LauncherNext ==
  \/ LauncherHelp
  \/ LauncherRejects
  \/ LauncherSpawns
  \/ SignalForwarded
  \/ ChildCloses
  \/ ChildFailsToStart

LauncherSpec == LauncherInit /\ [][LauncherNext]_vars

(***************************************************************************)
(* Where the handlers run their commands.  The environment is fixed when   *)
(* the server starts; up to MaxCalls handlers run a command one after the  *)
(* other and each decides from the environment whether to wrap it in ssh.  *)
(***************************************************************************)
MaxCalls == 2

\* process.env restricted to the variables the decisions read
TargetEnvironments ==
  [MCP_REMOTE_KUBECONFIG : {Undefined, Str("/root/.kube/config")},
   MCP_BASTION_HOST : {Undefined, Str("localhost"), Str("bastion")},
   RUNNING_ON_BASTION : {Undefined, Str("true")}]

\* the handlers that decide with useRemoteAccess
RemoteAccessHandlers ==
  {"monitorDeployments", "createDeployment", "deployDatabase", "createHPA",
   "createService", "createNetworkPolicy", "runStorageBenchmark", "runNetworkTest",
   "runCpuStressTest", "runDatabaseBenchmark"}

\* the handlers that decide with needsRemoteAccess
NeedsRemoteHandlers ==
  {"analyzeJournalctlPodErrors", "checkKubeletStatus", "checkCrioStatus"}

\* the handlers that run kubectl with --kubeconfig and never decide
LocalHandlers == {"getPerformanceMetrics", "runKubeBurner"}

\* process.env.MCP_BASTION_HOST && process.env.MCP_BASTION_HOST !== 'localhost'
\*   && !process.env.RUNNING_ON_BASTION
needsRemoteAccess(env) ==
  /\ Truthy(env.MCP_BASTION_HOST)
  /\ env.MCP_BASTION_HOST # Str("localhost")
  /\ ~Truthy(env.RUNNING_ON_BASTION)

\* process.env.MCP_REMOTE_KUBECONFIG || process.env.MCP_BASTION_HOST
useRemoteAccess(env) == Truthy(env.MCP_REMOTE_KUBECONFIG) \/ Truthy(env.MCP_BASTION_HOST)

TargetInit ==
  /\ pc = "serving commands"
  /\ request = NoRequest
  /\ response = NoResponse
  /\ invoked = ""
  /\ params = NoArgs
  /\ effects = <<>>
  /\ outcome = "none"
  /\ rawError = NoMessage
  /\ \E env \in TargetEnvironments : loop = [env |-> env, commands |-> <<>>]

\* handler has run a command, in ssh or not
Commanded(handler, ssh) ==
  /\ pc = "serving commands"
  /\ Len(loop.commands) < MaxCalls
  /\ loop' = [loop EXCEPT !.commands = Append(@, [handler |-> handler, ssh |-> ssh])]
  /\ UNCHANGED <<pc, request, response, invoked, params, effects, outcome, rawError>>

\* if (useRemoteAccess) ssh ... else kubectl ...
CommandByRemoteAccess ==
  \E handler \in RemoteAccessHandlers : Commanded(handler, useRemoteAccess(loop.env))

\* if (needsRemoteAccess) ssh ... else oc ...
CommandByNeedsRemote ==
  \E handler \in NeedsRemoteHandlers : Commanded(handler, needsRemoteAccess(loop.env))

\* kubectl ... --kubeconfig ${kubeconfigPath}
CommandLocally ==
  \E handler \in LocalHandlers : Commanded(handler, FALSE)

TargetNext ==
  \/ CommandByRemoteAccess
  \/ CommandByNeedsRemote
  \/ CommandLocally

TargetSpec == TargetInit /\ [][TargetNext]_vars

(***************************************************************************)
(* deployDatabase, runCpuStressTest and runDatabaseBenchmark against the   *)
(* cluster: the objects they apply, read and delete, by kind and name.     *)
(* Date.now() is the field now of the call; up to MaxElapsed milliseconds  *)
(* pass while a kubectl command runs.                                      *)
(***************************************************************************)
MaxElapsed == 1

DatabaseTypes == {"postgresql", "mysql", "mongodb", "redis"}

InstanceNames == {"db", "orders"}

\* the calls: handler, the argument that enters the names, and the name
WorkloadCalls ==
  {[handler |-> "deployDatabase", kind |-> type, name |-> name] :
     type \in DatabaseTypes, name \in InstanceNames}
  \cup {[handler |-> "runCpuStressTest", kind |-> testType, name |-> ""] :
          testType \in {"cpu", "memory", "combined"}}
  \cup {[handler |-> "runDatabaseBenchmark", kind |-> dbType, name |-> ""] :
          dbType \in {"postgresql", "mysql"}}

\* `${name}-storage`, `${name}-pvc`
Suffixed(name, suffix) == [base |-> name, suffix |-> suffix]

\* `stress-test-${testType}-${Date.now()}`, `db-benchmark-${dbType}-${Date.now()}`
JobName(call, now) ==
  [prefix |-> IF call.handler = "runCpuStressTest" THEN "stress-test" ELSE "db-benchmark",
   kind |-> call.kind, stamp |-> now]

ClusterObject(kind, name) == [kind |-> kind, name |-> name]

WorkloadsInit ==
  /\ pc = "called"
  /\ request = NoRequest
  /\ response = NoResponse
  /\ invoked = ""
  /\ params = NoArgs
  /\ effects = <<>>
  /\ outcome = "none"
  /\ rawError = NoMessage
  /\ \E call \in WorkloadCalls :
       loop = [call |-> call, now |-> 0, cluster |-> {}, applied |-> <<>>,
               jobResult |-> <<>>, used |-> <<>>]

Calling(handlers, at) == pc = at /\ loop.call.handler \in handlers

WorkloadUnchanged == UNCHANGED <<request, response, invoked, params, effects, outcome, rawError>>

\* what comes after the namespace of a job handler was created or was there
NamespaceReady ==
  /\ Calling({"runCpuStressTest", "runDatabaseBenchmark"}, "called")
  /\ pc' = "namespace ready"
  /\ UNCHANGED loop
  /\ WorkloadUnchanged

\* createNamespace fails with another status than 409
NamespaceFails ==
  /\ Calling({"runCpuStressTest", "runDatabaseBenchmark"}, "called")
  /\ pc' = "failed"
  /\ UNCHANGED loop
  /\ WorkloadUnchanged

\* an object is applied with kubectl while d milliseconds pass
Apply(object, d) ==
  [loop EXCEPT !.cluster = @ \cup {object}, !.applied = Append(@, object), !.now = @ + d]

\* echo '${pvcYaml}' | kubectl apply -f -
PvcApplied ==
  /\ Calling({"deployDatabase"}, "called")
  /\ \E d \in 0..MaxElapsed :
       loop' = Apply(ClusterObject("PersistentVolumeClaim",
                                   Suffixed(loop.call.name, "-storage")), d)
  /\ pc' = "pvc applied"
  /\ WorkloadUnchanged

\* echo '${deploymentYaml}' | kubectl apply -f -
DeploymentApplied ==
  /\ Calling({"deployDatabase"}, "pvc applied")
  /\ \E d \in 0..MaxElapsed :
       loop' = Apply([kind |-> "Deployment", name |-> Suffixed(loop.call.name, ""),
                      claimName |-> Suffixed(loop.call.name, "-pvc")], d)
  /\ pc' = "deployment applied"
  /\ WorkloadUnchanged

\* echo '${serviceYaml}' | kubectl apply -f -
ServiceApplied ==
  /\ Calling({"deployDatabase"}, "deployment applied")
  /\ \E d \in 0..MaxElapsed :
       loop' = Apply(ClusterObject("Service", Suffixed(loop.call.name, "")), d)
  /\ pc' = "succeeded"
  /\ WorkloadUnchanged

\* one of the three kubectl commands of deployDatabase fails
DatabaseApplyFails ==
  /\ Calling({"deployDatabase"}, pc)
  /\ pc \in {"called", "pvc applied", "deployment applied"}
  /\ \E d \in 0..MaxElapsed : loop' = [loop EXCEPT !.now = @ + d]
  /\ pc' = "failed"
  /\ WorkloadUnchanged

\* echo '${jobYaml}' | kubectl apply -f -, then jobResult
JobApplied ==
  /\ Calling({"runCpuStressTest", "runDatabaseBenchmark"}, "namespace ready")
  /\ \E d \in 0..MaxElapsed :
       loop' = [Apply(ClusterObject("Job", JobName(loop.call, loop.now)), d)
                  EXCEPT !.jobResult = <<JobName(loop.call, loop.now + d)>>]
  /\ pc' = "job applied"
  /\ WorkloadUnchanged

\* kubectl apply of the job fails
JobApplyFails ==
  /\ Calling({"runCpuStressTest", "runDatabaseBenchmark"}, "namespace ready")
  /\ \E d \in 0..MaxElapsed : loop' = [loop EXCEPT !.now = @ + d]
  /\ pc' = "failed"
  /\ WorkloadUnchanged

Exists(kind, name) == ClusterObject(kind, name) \in loop.cluster

\* readNamespacedJob(jobResult.metadata.name) after the wait
JobStatusRead ==
  /\ Calling({"runCpuStressTest"}, "job applied")
  /\ Exists("Job", loop.jobResult[1])
  /\ loop' = [loop EXCEPT !.used = Append(@, loop.jobResult[1])]
  /\ pc' = "job read"
  /\ WorkloadUnchanged

\* readNamespacedJob answers 404
JobStatusMissing ==
  /\ Calling({"runCpuStressTest"}, "job applied")
  /\ ~Exists("Job", loop.jobResult[1])
  /\ loop' = [loop EXCEPT !.used = Append(@, loop.jobResult[1])]
  /\ pc' = "failed"
  /\ WorkloadUnchanged

\* kubectl logs job/${jobResult.metadata.name}; a failure is kept as text
JobLogsRead ==
  /\ Calling({"runDatabaseBenchmark"}, "job applied")
  /\ loop' = [loop EXCEPT !.used = Append(@, loop.jobResult[1])]
  /\ pc' = "job read"
  /\ WorkloadUnchanged

\* deleteNamespacedJob(jobResult.metadata.name)
JobDeleted ==
  /\ Calling({"runCpuStressTest", "runDatabaseBenchmark"}, "job read")
  /\ Exists("Job", loop.jobResult[1])
  /\ loop' = [loop EXCEPT !.cluster = @ \ {ClusterObject("Job", loop.jobResult[1])},
                           !.used = Append(@, loop.jobResult[1])]
  /\ pc' = "succeeded"
  /\ WorkloadUnchanged

\* deleteNamespacedJob answers 404
JobDeleteMissing ==
  /\ Calling({"runCpuStressTest", "runDatabaseBenchmark"}, "job read")
  /\ ~Exists("Job", loop.jobResult[1])
  /\ loop' = [loop EXCEPT !.used = Append(@, loop.jobResult[1])]
  /\ pc' = "failed"
  /\ WorkloadUnchanged

WorkloadsNext ==
  \/ NamespaceReady
  \/ NamespaceFails
  \/ PvcApplied
  \/ DeploymentApplied
  \/ ServiceApplied
  \/ DatabaseApplyFails
  \/ JobApplied
  \/ JobApplyFails
  \/ JobStatusRead
  \/ JobStatusMissing
  \/ JobLogsRead
  \/ JobDeleted
  \/ JobDeleteMissing

WorkloadsSpec == WorkloadsInit /\ [][WorkloadsNext]_vars

(***************************************************************************)
(* runNetworkTest called MaxInvocations times at once.  Every await of the *)
(* handler is a step of its invocation; the cluster holds the pod          *)
(* iperf3-server of namespace network-test and the client jobs, whose      *)
(* names are taken to differ between the invocations.  pc is the step of   *)
(* each invocation.                                                        *)
(***************************************************************************)
MaxInvocations == 2

Invocations == 1..MaxInvocations

NetworkInit ==
  /\ pc = [i \in Invocations |-> "idle"]
  /\ request = NoRequest
  /\ response = NoResponse
  /\ invoked = ""
  /\ params = NoArgs
  /\ effects = <<>>
  /\ outcome = "none"
  /\ rawError = NoMessage
  /\ loop = [server |-> FALSE, jobs |-> {}]

\* invocation i moves from one step to the next
Step(i, from, to) == pc[i] = from /\ pc' = [pc EXCEPT ![i] = to]

NetworkUnchanged == UNCHANGED <<request, response, invoked, params, effects, outcome, rawError>>

\* kubectl create namespace ... | kubectl apply -f -, errors ignored
NetworkNamespace(i) ==
  /\ Step(i, "idle", "namespace ready")
  /\ UNCHANGED loop
  /\ NetworkUnchanged

\* echo '${podYaml}' | kubectl apply -f -: pod iperf3-server
ServerApplied(i) ==
  /\ Step(i, "namespace ready", "server applied")
  /\ loop' = [loop EXCEPT !.server = TRUE]
  /\ NetworkUnchanged

\* the ten seconds given to the server to start are over
ServerAwaited(i) ==
  /\ Step(i, "server applied", "server awaited")
  /\ UNCHANGED loop
  /\ NetworkUnchanged

\* kubectl get pod iperf3-server -o jsonpath='{.status.podIP}'
ServerAddressRead(i) ==
  /\ Step(i, "server awaited", "address read")
  /\ loop.server
  /\ UNCHANGED loop
  /\ NetworkUnchanged

\* the pod is not there or has no address: the handler throws
ServerAddressMissing(i) ==
  /\ Step(i, "server awaited", "failed")
  /\ UNCHANGED loop
  /\ NetworkUnchanged

\* echo '${jobYaml}' | kubectl apply -f -: the client job of the invocation
ClientApplied(i) ==
  /\ Step(i, "address read", "client running")
  /\ loop' = [loop EXCEPT !.jobs = @ \cup {i}]
  /\ NetworkUnchanged

\* the wait for the client is over: its job has finished
ClientAwaited(i) ==
  /\ Step(i, "client running", "client awaited")
  /\ UNCHANGED loop
  /\ NetworkUnchanged

\* kubectl logs job/${jobResult.metadata.name}; a failure is kept as text
ClientFinished(i) ==
  /\ Step(i, "client awaited", "client finished")
  /\ UNCHANGED loop
  /\ NetworkUnchanged

\* kubectl delete job ${jobResult.metadata.name} --ignore-not-found
ClientDeleted(i) ==
  /\ Step(i, "client finished", "client deleted")
  /\ loop' = [loop EXCEPT !.jobs = @ \ {i}]
  /\ NetworkUnchanged

\* kubectl delete pod iperf3-server --ignore-not-found, then the result
ServerDeleted(i) ==
  /\ Step(i, "client deleted", "returned")
  /\ loop' = [loop EXCEPT !.server = FALSE]
  /\ NetworkUnchanged

NetworkNext ==
  \E i \in Invocations :
    \/ NetworkNamespace(i)
    \/ ServerApplied(i)
    \/ ServerAwaited(i)
    \/ ServerAddressRead(i)
    \/ ServerAddressMissing(i)
    \/ ClientApplied(i)
    \/ ClientAwaited(i)
    \/ ClientFinished(i)
    \/ ClientDeleted(i)
    \/ ServerDeleted(i)

NetworkSpec == NetworkInit /\ [][NetworkNext]_vars

(***************************************************************************)
(* Properties.                                                             *)
(***************************************************************************)
Finished == pc = "responded"

\* the text item of a response that has exactly one
TheText == response.content[1].text

\* a result object as the transport expects it
WellFormed(r) ==
  /\ Len(r.content) >= 1
  /\ \A i \in 1..Len(r.content) : r.content[i].type = "text"
  /\ r.isError \in {Undefined, Bool(TRUE), Bool(FALSE)}

\* C1: for every request (any name, any arguments, absent arguments) and
\* every outcome of the handler (a report, a thrown Error, a fault such as
\* destructuring absent arguments), the CallTool handler returns a result
\* object; no exception leaves it.
DispatchAlwaysReturnsResult ==
  /\ pc \in {"idle", "received", "running", "nodeLoop", "burner", "responded"}
  /\ Finished => WellFormed(response) /\ outcome # "none"

\* a handler faulted on absent arguments and the request was answered
FaultAnswered ==
  /\ Finished
  /\ ~request.hasArgs
  /\ TakesArgsObject(request.name)
  /\ outcome = "handlerError"
  /\ response.isError = Bool(TRUE)

\* what the inputSchema of a tool asks of an argument value
HasDeclaredType(v, type) ==
  CASE type = "array"  -> IsArray(v)
    [] type = "object" -> v.t = "object"
    [] OTHER           -> v.t = type

\* the request satisfies the inputSchema of its tool: required keys are
\* there, supplied values have the declared type and enum values are listed
SchemaValid(req) ==
  /\ \A k \in Required(req.name) : req.hasArgs /\ Def(Get(req.args, k))
  /\ \A k \in DOMAIN req.args \cap DOMAIN Properties(req.name) :
       /\ HasDeclaredType(req.args[k], Properties(req.name)[k].type)
       /\ Properties(req.name)[k].enum # {} => req.args[k].s \in Properties(req.name)[k].enum

\* C2: a request for a listed tool that omits a required field (or has no
\* arguments object while a field is required), supplies a value of another
\* type than declared, or an enum value outside its set, is answered with
\* isError = true before the handler is invoked and before any command or
\* API call.
InvalidArgumentsNeverReachHandler ==
  (request.name \in ListedNames /\ pc \notin {"idle", "received"} /\ ~SchemaValid(request)) =>
    /\ invoked = ""
    /\ effects = <<>>
    /\ Finished => response.isError = Bool(TRUE)

\* C3: a name has a case in the switch if and only if ListTools returns it,
\* the nineteen listed names have nineteen different handlers, a handler
\* runs only for a listed name and is the one of that name, and a request
\* with another name is answered with isError = true and a text that holds
\* the name, without a handler, a command or an API call.
RoutedIffListed ==
  /\ Len(ListedTools) = 19
  /\ Cardinality(ListedNames) = 19
  /\ Cardinality({HandlerOf(n) : n \in ListedNames}) = 19
  /\ \A n \in ListedNames \cup UnknownNames : (HandlerOf(n) # "") <=> (n \in ListedNames)
  /\ invoked # "" => request.name \in ListedNames /\ invoked = HandlerOf(request.name)
  /\ outcome = "unknownTool" => request.name \notin ListedNames
  /\ (Finished /\ request.name \notin ListedNames) =>
       /\ outcome = "unknownTool"
       /\ invoked = ""
       /\ effects = <<>>
       /\ response.isError = Bool(TRUE)
       /\ \E i \in 1..Len(TheText.pre) : TheText.pre[i] = request.name

\* a request with a name that is not listed was answered
UnknownToolAnswered ==
  /\ Finished
  /\ request.name \in UnknownNames
  /\ outcome = "unknownTool"
  /\ response.isError = Bool(TRUE)

\* C4: in every response with isError = true, the text of the underlying
\* error is what sanitizeErrorMessage makes of it.
ErrorTextIsSanitized ==
  (Finished /\ response.isError = Bool(TRUE)) =>
    TheText.raw = sanitizeErrorMessage(rawError).raw

\* the characters of the strings that requests carry as identifiers
Chars(x) ==
  CASE x = ""                 -> <<>>
    [] x = "web"              -> <<"w", "e", "b">>
    [] x = "x;reboot"         -> <<"x", ";", "r", "e", "b", "o", "o", "t">>
    [] x = "default"          -> <<"d", "e", "f", "a", "u", "l", "t">>
    [] x = "kube-burner-test" -> <<"k", "u", "b", "e", "-", "b", "u", "r", "n", "e", "r", "-",
                                   "t", "e", "s", "t">>

\* the DNS-1123 label rules: [a-z0-9]([-a-z0-9]*[a-z0-9])?, 63 characters at most
IsDns1123Label(v) ==
  /\ v.t = "string"
  /\ LET cs == Chars(v.s)
     IN  /\ Len(cs) \in 1..63
         /\ \A i \in 1..Len(cs) : cs[i] \in LowerAlnum \cup {"-"}
         /\ cs[1] \in LowerAlnum
         /\ cs[Len(cs)] \in LowerAlnum

\* C5: no command line and no manifest holds a name, namespace, pod or
\* service of the request that fails the DNS-1123 label rules, and a request
\* that carries one is answered with an error without any command or call.
OnlyAllowListedIdentifiers ==
  /\ \A i \in 1..Len(effects) :
       effects[i].op = "exec" =>
         \A j \in 1..Len(effects[i].idents) :
           effects[i].idents[j].key \in IdentifierKeys =>
             IsDns1123Label(effects[i].idents[j].value)
  /\ (Finished /\ \E k \in DOMAIN request.args \cap IdentifierKeys :
                    ~IsDns1123Label(request.args[k])) =>
       /\ effects = <<>>
       /\ response.isError = Bool(TRUE)

\* C6: when a handler fails, the response is one text item
\* 'Error executing <name>: <message>' with isError = true, the message
\* being the cause (sanitized or not), and nothing after it.
HandlerFailureHasContractForm ==
  (Finished /\ outcome = "handlerError") =>
    /\ Len(response.content) = 1
    /\ response.content[1].type = "text"
    /\ TheText.pre = <<"Error executing ", request.name, ": ">> \o rawError.pre
    /\ TheText.raw \in {rawError.raw, sanitizeErrorMessage(rawError).raw}
    /\ TheText.post = <<>>
    /\ response.isError = Bool(TRUE)

SuppliedValueWins ==
  (invoked # "" /\ (request.hasArgs \/ ~TakesArgsObject(request.name))) =>
    \A k \in DOMAIN Properties(request.name) :
      IF k \in DOMAIN request.args
      THEN params[k] = request.args[k]
      ELSE Def(Properties(request.name)[k].default) =>
             params[k] = Properties(request.name)[k].default

\* the report of a service check: the node list was read, every node has
\* its status entry, 'inaccessible' when its status probe or its log query
\* threw and the trimmed output of its status probe otherwise, and
\* nodesChecked is the number of nodes
DiagReportComplete ==
  /\ outcome = "success"
  /\ response.isError # Bool(TRUE)
  /\ TheText.payload.nodesChecked = loop.nodes
  /\ DOMAIN TheText.payload.status = 1..loop.nodes
  /\ \A n \in 1..loop.nodes :
       TheText.payload.status[n] =
         IF loop.probes[n].threw THEN "inaccessible" ELSE Trim(loop.probes[n].out)

\* C9, as stated: for any node list, the empty one included, and any set of
\* nodes whose probe throws, the service checks return the complete report.
DiagAlwaysReportsEveryNode ==
  (Finished /\ request.name \in DiagTools /\ loop.listed) => DiagReportComplete

\* C9, amended: for any node list that is not empty and any set of nodes
\* whose status probe or log query throws, the service checks return the
\* complete report, and the loop leaves no node out on its way: a node that
\* fails stops neither the nodes after it nor the handler.
DiagReportsEveryNodeOfNonEmptyList ==
  /\ (Finished /\ request.name \in DiagTools /\ loop.listed /\ loop.nodes >= 1) =>
       DiagReportComplete
  /\ pc = "nodeLoop" =>
       /\ loop.i \in 1..(loop.nodes + 1)
       /\ DOMAIN loop.status = 1..(loop.i - 1)

\* a report over three nodes of which the second could not be reached and
\* the first and the third could
LaterNodeProbedAfterFailure ==
  /\ Finished
  /\ request.name \in DiagTools
  /\ outcome = "success"
  /\ loop.nodes = 3
  /\ ~loop.probes[1].threw
  /\ loop.probes[2].threw
  /\ ~loop.probes[3].threw
  /\ TheText.payload.nodesChecked = 3
  /\ TheText.payload.status[1] = "active"
  /\ TheText.payload.status[2] = "inaccessible"
  /\ TheText.payload.status[3] = "inactive"

CreationTools ==
  {"create_deployment", "deploy_database", "create_hpa", "create_service",
   "create_network_policy"}

\* C11: each of the five creation tools reads the namespace before it
\* applies a manifest, and when createNamespace answers 'already exists'
\* (another actor created the namespace after the read answered 404) the
\* request does not fail on it.
NamespaceEnsuredAndRaceTolerated ==
  /\ (Finished /\ request.name \in CreationTools /\ outcome = "success") =>
       /\ effects # <<>>
       /\ effects[1].what = "readNamespace"
  /\ ~(/\ Finished
       /\ request.name \in CreationTools
       /\ outcome = "handlerError"
       /\ rawError = HandlerCatch(FailurePrefix(request.name), AlreadyExists))

\* run_kube_burner is running or has answered, with this operation
Burning(op) ==
  /\ request.name = "run_kube_burner"
  /\ pc \in {"burner", "responded"}
  /\ invoked = "runKubeBurner"
  /\ params["operation"] = Str(op)

\* the positions in `effects` of the commands of one kind
Positions(what) == {i \in 1..Len(effects) : effects[i].what = what}

Applies   == Positions("echo podManifest | kubectl apply -f -")
Deletions == Positions("kubectl delete namespace")

BothCreatesThenCleansUp ==
  (Burning("both") /\ Finished /\ outcome = "success") =>
    /\ Applies # {}
    /\ Deletions # {}
    /\ \A a \in Applies : \E d \in Deletions : a < d
    /\ ~loop.nsExists

\* C14: with operation 'create' the namespace is deleted after the creation
\* phase exactly when the cleanup flag is true; with cleanup false the
\* namespace and the pods of the call exist when it returns; with the other
\* operations no deletion follows the creation whatever the flag is; and a
\* deletion that fails is noted in the result of a call that still succeeds.
AutomaticCleanupFollowsFlag ==
  /\ (Burning("create") /\ Finished /\ outcome = "success") =>
       /\ (Deletions # {}) <=> Truthy(params["cleanup"])
       /\ \A d \in Deletions : d = Len(effects) /\ \A a \in Applies : a < d
       /\ ~Truthy(params["cleanup"]) =>
            /\ loop.nsExists
            /\ Cardinality(Applies) = loop.podCount
  /\ (Burning("create") /\ Finished /\ Deletions # {}) =>
       /\ outcome = "success"
       /\ response.isError # Bool(TRUE)
       /\ TheText.payload.cleanup \in {"Automatic cleanup completed", "Cleanup failed: "}
  /\ (Burning("both") \/ Burning("cleanup")) =>
       \A d \in Deletions : \A a \in Applies : d < a

\* a creation with cleanup false returned and left its namespace and pods
CreatedWithoutCleanup ==
  /\ Burning("create")
  /\ Finished
  /\ outcome = "success"
  /\ params["cleanup"] = Bool(FALSE)
  /\ loop.nsExists
  /\ loop.podCount > 0
  /\ Cardinality(Applies) = loop.podCount
  /\ Deletions = {}

\* the pod count formula of each test type, per iteration
PodsPerIteration(testType) ==
  CASE testType = Str("node-density")       -> 10
    [] testType = Str("cluster-density-v2") -> 5
    [] testType = Str("pvc-density")        -> 3
    [] testType = Str("crd-scale")          -> 2
    [] OTHER                                -> 0

\* C15: a create phase with n iterations applies n x 10 pod manifests for
\* node-density, n x 5 for cluster-density-v2, n x 3 for pvc-density and
\* n x 2 for crd-scale, and reports that number as podsCreated with status
\* 'Completed'.
PodCountFollowsTestType ==
  (/\ request.name = "run_kube_burner"
   /\ Finished
   /\ outcome = "success"
   /\ TheText.payload.creation.status = "Completed"
   /\ PodsPerIteration(params["testType"]) # 0) =>
    /\ Cardinality(Applies) = params["iterations"].n * PodsPerIteration(params["testType"])
    /\ TheText.payload.creation.podsCreated = Cardinality(Applies)
    /\ TheText.payload.status = "Completed"

\* C17: every command a handler has run was started with a timeout and with
\* an output-size cap of its own.
EveryExecutionIsBounded ==
  \A i \in 1..Len(effects) :
    effects[i].op = "exec" =>
      /\ ExecOptions(request.name, effects[i].what).timeout > 0
      /\ ExecOptions(request.name, effects[i].what).maxBuffer > 0

\* the log queries a diagnostic tool has run
LogQueries ==
  Positions(IF request.name \in DiagTools THEN "journalctl -u"
            ELSE "oc debug node -- chroot /host bash -c journalctl")

\* C18: a diagnostic tool that returns its report without a node having
\* failed has run its log query once for every node of the cluster.
LogQueryRunsOnEveryNode ==
  (/\ Finished
   /\ request.name \in DiagTools \cup {"analyze_journalctl_pod_errors"}
   /\ outcome = "success"
   /\ loop.listed
   /\ request.name \in DiagTools => \A n \in 1..loop.nodes : ~loop.probes[n].threw) =>
    Cardinality(LogQueries) = loop.nodes

\* C19: every key a handler works with is a property of the inputSchema of
\* its tool, and where a property of that schema has an enum and a default,
\* the default is one of the enum's values.
HandlerReadsOnlyDeclaredParameters ==
  invoked # "" =>
    /\ DOMAIN params \subseteq DOMAIN Properties(request.name)
    /\ \A k \in DOMAIN Properties(request.name) :
         LET property == Properties(request.name)[k]
         IN  (property.enum # {} /\ property.default # Undefined) =>
               property.default.s \in property.enum

\* a category as it is written, or a line in lower case, holds one of the
\* patterns
HoldsAny(patterns, category, lowered) ==
  \E i \in 1..Len(patterns) :
    \/ includes(category, patterns[i])
    \/ includes(lowered, toLowerCase(patterns[i]))

\* a line or its category matches one of the patterns: the pattern occurs in
\* the category as it is written, or in the line whatever the case of its
\* letters
MatchesAny(patterns, entry) ==
  HoldsAny(patterns, entry.category, toLowerCase(entry.line))

\* C20: the severity of every entry of the classifier is 'critical' when its
\* line or category matches a critical pattern, whether or not a warning
\* pattern matches too; 'warning' when a warning pattern matches and no
\* critical one; 'info' otherwise.
SeverityFollowsPatternRank ==
  pc = "parsing" =>
    \A n \in 1..Len(loop.errors) :
      LET entry == loop.errors[n]
      IN  /\ entry.severity \in {"critical", "warning", "info"}
          /\ entry.severity = "critical" <=> MatchesAny(criticalPatterns, entry)
          /\ entry.severity = "warning" <=>
                (MatchesAny(warningPatterns, entry) /\ ~MatchesAny(criticalPatterns, entry))

\* a line that matches a warning pattern and a critical pattern has been
\* classified, and its entry is critical
CriticalOutranksWarning ==
  /\ pc = "parsing"
  /\ \E n \in 1..Len(loop.errors) :
       /\ loop.errors[n].line = LineDeleteFailed \o TailPanic
       /\ loop.errors[n].category = TxtContainerDeletion
       /\ loop.errors[n].severity = "critical"

\* the lines of an output that are not lines of the debug pod, in their order
Kept(lines) == SelectSeq(lines, LAMBDA line : ~IsDebugPodLine(line))

\* the names of the months as the journal writes them
MonthNames ==
  <<<<"J", "a", "n">>, <<"F", "e", "b">>, <<"M", "a", "r">>, <<"A", "p", "r">>, <<"M", "a", "y">>, <<"J", "u", "n">>,
    <<"J", "u", "l">>, <<"A", "u", "g">>, <<"S", "e", "p">>, <<"O", "c", "t">>, <<"N", "o", "v">>, <<"D", "e", "c">>>>

\* the time that a timestamp of the form `Mon dd hh:mm:ss` tells, in seconds
\* from the start of its year (months counted as 31 days)
SecondsOf(stamp) ==
  LET month == CHOOSE m \in 1..12 : MonthNames[m] = SubSeq(stamp, 1, 3)
      two(i) == DigitValue(stamp[i]) * 10 + DigitValue(stamp[i + 1])
  IN  (((month * 31 + two(5)) * 24 + two(8)) * 60 + two(11)) * 60 + two(14)

\* the report counts every entry, and returns the first of the sorted list
ReportCountsAllEntries ==
  LET kept == Kept(loop.lines)
      counts == loop.report.errorCounts
      patterns == loop.report.analysis.patterns
  IN  /\ Len(loop.errors) = Len(kept)
      /\ \A k \in 1..Len(kept) :
            Cardinality({i \in 1..Len(kept) : loop.errors[i] = ErrorEntry(kept[k])}) =
              Cardinality({i \in 1..Len(kept) : kept[i] = kept[k]})
      /\ loop.report.errors =
           SubSeq(loop.errors, 1, IF Len(kept) < 20 THEN Len(kept) ELSE 20)
      /\ loop.report.totalErrors = Len(kept)
      /\ \A i \in 1..Len(counts) :
            counts[i].n = Cardinality({k \in 1..Len(kept) :
                                         /\ CategoryOf(kept[k]) = counts[i].category
                                         /\ ErrorTypeOf(kept[k]) = counts[i].errorType})
      /\ \A k \in 1..Len(kept) :
            \E i \in 1..Len(counts) : /\ CategoryOf(kept[k]) = counts[i].category
                                       /\ ErrorTypeOf(kept[k]) = counts[i].errorType
      /\ \A name \in DOMAIN patterns :
            patterns[name] =
              Cardinality({k \in 1..Len(kept) : PatternOf(ErrorEntry(kept[k])) = name})

\* C21: the report of the classifier returns the first 20 entries, or all of
\* them, of the list of all entries ordered by severity, critical first, and
\* among entries of one severity by their time, the latest first; its
\* totalErrors, its errorCounts and its pattern analysis count every line
\* that is not a line of the debug pod.
ReportIsTopOfTimeOrderedList ==
  (pc = "parsed" /\ loop.lines # <<>>) =>
    /\ ReportCountsAllEntries
    /\ \A i \in 1..(Len(loop.errors) - 1) :
         LET a == loop.errors[i]
             b == loop.errors[i + 1]
         IN  /\ severityOrder(a.severity) >= severityOrder(b.severity)
             /\ (/\ a.severity = b.severity
                 /\ Len(a.timestamp) = 15
                 /\ Len(b.timestamp) = 15) =>
                  SecondsOf(a.timestamp) >= SecondsOf(b.timestamp)

\* C22: sanitizeErrorMessage applied to its own result changes nothing, and
\* its result holds none of the keywords token, password and secret, in any
\* case of their letters, followed by "=".
SanitizeIsIdempotentAndRedacts ==
  pc = "sanitizing" =>
    /\ loop.passes >= 1 =>
         \A kw \in {KwToken, KwPassword, KwSecret} :
           ~includes(toLowerCase(loop.text), kw \o <<"=">>)
    /\ loop.passes = 2 => loop.text = loop.before

\* a text with a keyword in mixed case and its value has been sanitized
\* twice, and the second time left the redacted text as it was
MixedCaseSecretRedacted ==
  /\ pc = "sanitizing"
  /\ loop.passes = 2
  /\ loop.message = <<"T", "o", "K", "e", "n">> \o <<"=">> \o <<"x", "1">>
  /\ loop.text = KwToken \o Redacted
  /\ loop.before = loop.text


\* the texts that write a decimal number: digits, or digits, a point, digits
Decimals == {number \in NumberTexts : IsPlainDecimal(number)}

\* the texts of digits alone
Naturals10 == {number \in NumberTexts : number # <<>> /\ DigitRun(number) = number}

\* quantity is num / den * base ^ exp
IsQuantity(quantity, num, den, base, exp) ==
  /\ quantity.num * den = num * quantity.den
  /\ quantity.base = base
  /\ quantity.exp = exp

ResourceParsed == pc = "parsed value" /\ loop.parser = "parseResourceValue"

\* C23: parseResourceValue returns 0 for an empty or non-string input, the
\* number divided by 1000 for a string ending in 'm', the number itself for
\* a plain decimal, the number times 1024^k for Ki, Mi, Gi, Ti and the number
\* times 1000^k for K, M, G, T (k = 1, 2, 3, 4).
ResourceValueFollowsUnit ==
  ResourceParsed =>
    /\ (loop.value.t # "string" \/ loop.value.chars = <<>>) =>
          IsQuantity(loop.returned, 0, 1, 1, 0)
    /\ loop.value.t = "string" =>
          \A number \in Decimals :
            LET n == parseFloat(number)
                text == loop.value.chars
                is(suffix, den, base, exp) ==
                  text = number \o suffix =>
                    IsQuantity(loop.returned, n.num, n.den * den, base, exp)
            IN  /\ is(<<"m">>, 1000, 1, 0)
                /\ is(<<>>, 1, 1, 0)
                /\ is(<<"K", "i">>, 1, 1024, 1)
                /\ is(<<"M", "i">>, 1, 1024, 2)
                /\ is(<<"G", "i">>, 1, 1024, 3)
                /\ is(<<"T", "i">>, 1, 1024, 4)
                /\ is(<<"K">>, 1, 1000, 1)
                /\ is(<<"M">>, 1, 1000, 2)
                /\ is(<<"G">>, 1, 1000, 3)
                /\ is(<<"T">>, 1, 1000, 4)

\* '500m' was parsed to a half
HalfACoreParsed ==
  /\ ResourceParsed
  /\ loop.value.t = "string"
  /\ loop.value.chars = <<"5", "0", "0", "m">>
  /\ IsQuantity(loop.returned, 1, 2, 1, 0)

DurationWasParsed == pc = "parsed value" /\ loop.parser = "parseDuration"

\* C24: parseDuration returns n for '<n>s' and 60 * n for '<n>m', n a decimal
\* integer without sign, and 120 for every other string.
DurationFollowsUnit ==
  DurationWasParsed =>
    LET text == loop.value.chars
        seconds == {n \in Naturals10 : text = n \o <<"s">>}
        minutes == {n \in Naturals10 : text = n \o <<"m">>}
    IN  /\ \A n \in seconds : loop.returned = DigitsValue(n)
        /\ \A n \in minutes : loop.returned = 60 * DigitsValue(n)
        /\ (seconds = {} /\ minutes = {}) => loop.returned = 120

\* '15m' was parsed to 900 seconds
QuarterHourParsed ==
  /\ DurationWasParsed
  /\ loop.value.chars = <<"1", "5", "m">>
  /\ loop.returned = 900


Launched == pc \in {"serving", "exited"} /\ loop.config # NoConfig

RECURSIVE ReadAsFlag(_, _)
\* the argument at index i is read as a flag and not as the value of one
ReadAsFlag(args, i) ==
  \/ i = 1
  \/ i > 1 /\ ReadAsFlag(args, i - 1) /\ args[i - 1] \notin DOMAIN SettingOfFlag
  \/ i > 2 /\ ReadAsFlag(args, i - 2) /\ args[i - 2] \in DOMAIN SettingOfFlag

\* where the flag of a setting is given
Given(args, setting) ==
  {i \in 1..Len(args) :
     /\ ReadAsFlag(args, i)
     /\ args[i] \in DOMAIN SettingOfFlag
     /\ SettingOfFlag[args[i]] = setting}

\* flag, then environment variable where isSet holds of it, then default
Precedence(isSet(_)) ==
  Launched =>
    \A setting \in LauncherSettings :
      LET given == Given(loop.args, setting)
          last == CHOOSE i \in given : \A k \in given : k <= i
      IN  loop.config[setting] =
            IF given # {} THEN ArgAt(loop.args, last + 1)
            ELSE IF isSet(loop.env[setting]) THEN loop.env[setting]
            ELSE Str(LauncherDefaults[setting])

IsDefined(v) == v # Undefined

IsNotEmpty(v) == v # Undefined /\ v # Str("")

\* C25 as stated: every setting is the value of its flag when the flag is
\* given, else its MCP_* environment variable when that is set, else the
\* built-in default.
SettingFollowsPrecedence == Precedence(IsDefined)

\* C25: every setting is the value of its flag when the flag is given, else
\* its MCP_* environment variable when that is set to a value that is not
\* empty, else the built-in default.
SettingFollowsPrecedenceOfValues == Precedence(IsNotEmpty)

\* the host came from the flag although the environment names one, the
\* path is the default
FlagOverrodeEnvironment ==
  /\ Launched
  /\ loop.args = <<"--host", "v">>
  /\ loop.env.bastionHost = Str("env")
  /\ loop.config.bastionHost = Str("v")
  /\ loop.config.remotePath = Str("/opt/openshift-mcp-server")

\* C30: the child is spawned only after the validation passed, a failed
\* validation exits with code 1 and no child; every signal the launcher
\* receives while the child runs is sent on to the child; the launcher exits
\* after a spawn only when the child closed, with the child's code, 0 when
\* there is none, or with 1 when the child could not be started.
LauncherFollowsChild ==
  /\ (pc \in {"serving", "exited"} /\ loop.child # "none") =>
        validateConfig(loop.config, loop.keyExists) = "passed"
  /\ (Launched /\ validateConfig(loop.config, loop.keyExists) # "passed") =>
        pc = "exited" /\ loop.exit = Num(1) /\ loop.child = "none"
  /\ pc \in {"serving", "exited"} => loop.killed = loop.received
  /\ pc = "serving" => loop.child = "spawned" /\ loop.exit = Undefined
  /\ (pc = "exited" /\ loop.child # "none") =>
        \/ /\ loop.child = "closed"
           /\ loop.closed \in {Num(1), Num(255)}
           /\ loop.exit = loop.closed
        \/ /\ loop.child = "closed"
           /\ loop.closed \in {NoCode, Num(0)}
           /\ loop.exit = Num(0)
        \/ /\ loop.child = "failed"
           /\ loop.exit = Num(1)

\* the interrupt was sent on and the child it ended reported no code
InterruptedChildClosed ==
  /\ pc = "exited"
  /\ loop.received = <<"SIGINT">>
  /\ loop.killed = <<"SIGINT">>
  /\ loop.child = "closed"
  /\ loop.closed = NoCode
  /\ loop.exit = Num(0)


\* C27: for a fixed environment every handler that runs a command makes the
\* same decision between the local host and the bastion, and with
\* RUNNING_ON_BASTION set no handler wraps its command in ssh.
OneExecutionTarget ==
  pc = "serving commands" =>
    /\ \A i, k \in 1..Len(loop.commands) : loop.commands[i].ssh = loop.commands[k].ssh
    /\ Truthy(loop.env.RUNNING_ON_BASTION) =>
          \A i \in 1..Len(loop.commands) : ~loop.commands[i].ssh


JobCall == loop.call.handler \in {"runCpuStressTest", "runDatabaseBenchmark"}

\* C26: the job that run_cpu_stress_test and run_database_benchmark read and
\* delete has the name of the job the call applied, whatever time passed, and
\* after a successful call no job of the call is left in the cluster.
JobReadIsJobApplied ==
  (pc \in {"job applied", "job read", "succeeded", "failed"} /\ JobCall) =>
    /\ \A i \in 1..Len(loop.used), k \in 1..Len(loop.applied) :
         loop.used[i] = loop.applied[k].name
    /\ pc = "succeeded" => \A object \in loop.cluster : object.kind # "Job"

\* C28: the Deployment that deploy_database applies names as claimName the
\* PersistentVolumeClaim that the same call applied before it.
ClaimNameIsAppliedPvc ==
  (pc \in {"deployment applied", "succeeded", "failed"}
     /\ loop.call.handler = "deployDatabase") =>
    \A i \in 1..Len(loop.applied) :
      loop.applied[i].kind = "Deployment" =>
        \E k \in 1..(i - 1) :
          /\ loop.applied[k].kind = "PersistentVolumeClaim"
          /\ loop.applied[k].name = loop.applied[i].claimName


\* C29: overlapping run_network_test invocations do not interfere: the
\* iperf3 server pod of an invocation exists from its setup until its own
\* client job has finished, under every interleaving with the other
\* invocation.
ServerOutlivesOwnClient ==
  \A i \in Invocations :
    pc[i] \in {"server applied", "server awaited", "address read", "client running"}
      => loop.server

====
